---- MODULE Spec2Model ----
(***************************************************************************)
(* Verification model of the snapdash file-access layer: path security,    *)
(* the local-filesystem and the object-store storage backends, and the     *)
(* file-serving middleware.                                                *)
(*                                                                         *)
(* A string is a sequence of one-character strings, so that the string     *)
(* operations of the source (startsWith, includes, path.normalize, ...)    *)
(* are computed on characters, as Node computes them on POSIX.             *)
(***************************************************************************)
EXTENDS Integers, Sequences, FiniteSets, TLC

\* ------------------------------------------------------------------------
\* Bounds of the model
\* ------------------------------------------------------------------------
\* most nodes (directories and files) the modelled filesystem holds
MaxNodes == 6
\* most objects the modelled bucket holds
MaxObjects == 2
\* number of requests that are in the serving pipeline together
MaxRequests == 2

\* ------------------------------------------------------------------------
\* String primitives (String.prototype.startsWith / includes / split / join)
\* ------------------------------------------------------------------------
StartsWith(s, p) == Len(p) <= Len(s) /\ SubSeq(s, 1, Len(p)) = p

Includes(s, p) == \E i \in 1..(Len(s) - Len(p) + 1) : SubSeq(s, i, i + Len(p) - 1) = p

\* String.prototype.split("/")
RECURSIVE Split(_)
Split(s) ==
    IF \A i \in 1..Len(s) : s[i] # "/"
    THEN <<s>>
    ELSE LET i == CHOOSE k \in 1..Len(s) : s[k] = "/" /\ \A j \in 1..(k - 1) : s[j] # "/"
         IN  <<SubSeq(s, 1, i - 1)>> \o Split(SubSeq(s, i + 1, Len(s)))

RECURSIVE JoinSegs(_)
JoinSegs(segs) ==
    IF Len(segs) = 0 THEN <<>>
    ELSE IF Len(segs) = 1 THEN segs[1]
    ELSE segs[1] \o <<"/">> \o JoinSegs(Tail(segs))

DotDot == <<".", ".">>

\* ------------------------------------------------------------------------
\* Node's path module (posix)
\* ------------------------------------------------------------------------
RECURSIVE normalizeString(_, _, _)
normalizeString(segs, res, allowAboveRoot) ==
    IF segs = <<>> THEN res
    ELSE LET s == Head(segs)
             rest == Tail(segs)
         IN  IF s = <<>> \/ s = <<".">>
             THEN normalizeString(rest, res, allowAboveRoot)
             ELSE IF s = DotDot
             THEN IF res # <<>> /\ res[Len(res)] # DotDot
                  THEN normalizeString(rest, SubSeq(res, 1, Len(res) - 1), allowAboveRoot)
                  ELSE IF allowAboveRoot
                  THEN normalizeString(rest, Append(res, DotDot), allowAboveRoot)
                  ELSE normalizeString(rest, res, allowAboveRoot)
             ELSE normalizeString(rest, Append(res, s), allowAboveRoot)

isAbsolute(p) == Len(p) > 0 /\ p[1] = "/"

normalize(p) ==
    IF Len(p) = 0 THEN <<".">>
    ELSE LET abs == isAbsolute(p)
             trailingSeparator == p[Len(p)] = "/"
             body == JoinSegs(normalizeString(Split(p), <<>>, ~abs))
         IN  IF Len(body) = 0
             THEN IF abs THEN <<"/">>
                  ELSE IF trailingSeparator THEN <<".", "/">> ELSE <<".">>
             ELSE (IF abs THEN <<"/">> ELSE <<>>) \o body
                  \o (IF trailingSeparator THEN <<"/">> ELSE <<>>)

\* path.join: the non-empty arguments joined by "/", then normalized
join(args) ==
    LET parts == SelectSeq(args, LAMBDA a : Len(a) > 0)
    IN  IF Len(parts) = 0 THEN <<".">> ELSE normalize(JoinSegs(parts))

\* process.cwd() of the server process
Cwd == <<"/", "a", "p", "p">>

\* path.resolve of one argument: made absolute against the working
\* directory, normalized, without a trailing separator
resolve(p) ==
    LET full == IF isAbsolute(p) THEN p ELSE Cwd \o <<"/">> \o p
    IN  <<"/">> \o JoinSegs(normalizeString(Split(full), <<>>, FALSE))

\* path.dirname: trailing separators are ignored
dirname(p) ==
    LET comps == SelectSeq(Split(p), LAMBDA s : s # <<>>)
    IN  IF Len(comps) = 0 THEN (IF isAbsolute(p) THEN <<"/">> ELSE <<".">>)
        ELSE IF Len(comps) = 1 THEN (IF isAbsolute(p) THEN <<"/">> ELSE <<".">>)
        ELSE (IF isAbsolute(p) THEN <<"/">> ELSE <<>>)
             \o JoinSegs(SubSeq(comps, 1, Len(comps) - 1))

\* ------------------------------------------------------------------------
\* Names used by the model
\* ------------------------------------------------------------------------
Data == <<"d", "a", "t", "a">>
Foo == <<"f", "o", "o">>
FooBar == <<"f", "o", "o", "b", "a", "r">>
XCss == <<"x", ".", "c", "s", "s">>
IndexHtml == <<"i", "n", "d", "e", "x", ".", "h", "t", "m", "l">>
LayoutHtml == <<"_", "l", "a", "y", "o", "u", "t", ".", "h", "t", "m", "l">>
DotHtml == <<".", "h", "t", "m", "l">>
FooHost == <<"f", "o", "o", ".", "t", "e", "s", "t">>
FooBarHost == <<"f", "o", "o", "b", "a", "r", ".", "t", "e", "s", "t">>
OtherHost == <<"x", ".", "t", "e", "s", "t">>

\* The registry rows the storage layer is handed (Project objects)
ProjectFoo ==
    [id |-> 1, name |-> <<"F", "o", "o">>, color |-> <<"#", "f", "f", "f">>, folder |-> Foo,
     hosts |-> <<FooHost>>]
ProjectFooBar ==
    [id |-> 2, name |-> <<"F", "o", "o", " ", "B", "a", "r">>, color |-> <<"#", "0", "0", "0">>, folder |-> FooBar,
     hosts |-> <<FooBarHost>>]
SeedProjects == {ProjectFoo, ProjectFooBar}
\* req.project of a request whose host is bound to no project
NoProject == [id |-> 0, name |-> <<>>, color |-> <<>>, folder |-> <<>>, hosts |-> <<>>]

\* Caller-supplied relative paths: a plain file, a directory, a nested file,
\* a climb into the sibling folder, a ".." that stays inside, a path with an
\* absolute prefix, a path through a file, and two climbs out of the folder
RelPaths ==
    {JoinSegs(s) : s \in {<<XCss>>, <<FooBar>>, <<FooBar, XCss>>,
                          <<DotDot, FooBar, XCss>>, <<FooBar, DotDot, XCss>>,
                          <<<<>>, XCss>>, <<XCss, FooBar>>,
                          <<DotDot>>, <<DotDot, XCss>>}}

\* JavaScript strings are sequences of UTF-16 code units: "a" is an ordinary
\* character, "HS"/"LS" a high/low surrogate, "FFFD" the replacement character
Contents == {<<"a", "HS", "LS">>, <<"HS">>}

\* ------------------------------------------------------------------------
\* UTF-8 conversion of file content.  Stored data is a sequence of encoded
\* scalar values: "SUPP" is the four-byte encoding of a surrogate pair.
\* ------------------------------------------------------------------------
RECURSIVE Utf8Encode(_)
Utf8Encode(s) ==
    IF s = <<>> THEN <<>>
    ELSE IF s[1] = "HS" /\ Len(s) >= 2 /\ s[2] = "LS"
    THEN <<"SUPP">> \o Utf8Encode(SubSeq(s, 3, Len(s)))
    ELSE IF s[1] \in {"HS", "LS"}
    THEN <<"FFFD">> \o Utf8Encode(Tail(s))
    ELSE <<s[1]>> \o Utf8Encode(Tail(s))

RECURSIVE Utf8Decode(_)
Utf8Decode(b) ==
    IF b = <<>> THEN <<>>
    ELSE IF b[1] = "SUPP"
    THEN <<"HS", "LS">> \o Utf8Decode(Tail(b))
    ELSE <<b[1]>> \o Utf8Decode(Tail(b))

Buffers == {<<"a", "SUPP">>, <<"FFFD">>}

\* ------------------------------------------------------------------------
\* The filesystem under the server (Node fs on POSIX).  fs maps the absolute
\* path of every existing node to [kind |-> "dir" | "file", data |-> bytes].
\* ------------------------------------------------------------------------
DirNode == [kind |-> "dir", data |-> <<>>]
FileNode(d) == [kind |-> "file", data |-> d]

Comps(p) == SelectSeq(Split(p), LAMBDA s : s # <<>>)
AbsOf(comps, n) == <<"/">> \o JoinSegs(SubSeq(comps, 1, n))
\* the node a path names, without its trailing separator
Loc(p) == AbsOf(Comps(p), Len(Comps(p)))

\* path resolution of the kernel: every component before the last is looked
\* up in a directory
RECURSIVE Walk(_, _, _)
Walk(fs, comps, n) ==
    IF n = Len(comps) THEN "found"
    ELSE IF fs[AbsOf(comps, n)].kind # "dir" THEN "ENOTDIR"
    ELSE IF AbsOf(comps, n + 1) \notin DOMAIN fs THEN "ENOENT"
    ELSE Walk(fs, comps, n + 1)

\* fs.stat: "file", "dir", or the error code
statSys(fs, p) ==
    LET comps == Comps(p)
        w == Walk(fs, comps, 0)
        node == fs[AbsOf(comps, Len(comps))]
    IN  IF w # "found" THEN w
        ELSE IF p[Len(p)] = "/" /\ node.kind # "dir" THEN "ENOTDIR"
        ELSE node.kind

\* fs.access: "" when the path can be reached, else the error code
accessSys(fs, p) ==
    LET st == statSys(fs, p)
    IN  IF st \in {"file", "dir"} THEN "" ELSE st

\* fs.mkdir(p, {recursive: true})
RECURSIVE mkdirSys(_, _, _)
mkdirSys(fs, comps, n) ==
    IF n > Len(comps) THEN [err |-> "", fs |-> fs]
    ELSE LET d == AbsOf(comps, n)
         IN  IF d \in DOMAIN fs
             THEN IF fs[d].kind = "dir"
                  THEN mkdirSys(fs, comps, n + 1)
                  ELSE [err |-> IF n = Len(comps) THEN "EEXIST" ELSE "ENOTDIR", fs |-> fs]
             ELSE mkdirSys([x \in DOMAIN fs \cup {d} |-> IF x = d THEN DirNode ELSE fs[x]],
                           comps, n + 1)

\* fs.writeFile(p, data): open(O_WRONLY | O_CREAT | O_TRUNC) and write
writeFileSys(fs, p, data) ==
    LET comps == Comps(p)
        parent == Walk(fs, SubSeq(comps, 1, Len(comps) - 1), 0)
        target == Loc(p)
    IN  IF Len(comps) = 0 THEN [err |-> "EISDIR", fs |-> fs]
        ELSE IF parent # "found" THEN [err |-> parent, fs |-> fs]
        ELSE IF fs[AbsOf(comps, Len(comps) - 1)].kind # "dir" THEN [err |-> "ENOTDIR", fs |-> fs]
        ELSE IF target \in DOMAIN fs /\ fs[target].kind = "dir" THEN [err |-> "EISDIR", fs |-> fs]
        ELSE IF p[Len(p)] = "/"
        THEN [err |-> IF target \in DOMAIN fs THEN "ENOTDIR" ELSE "EISDIR", fs |-> fs]
        ELSE [err |-> "",
              fs |-> [x \in DOMAIN fs \cup {target} |->
                         IF x = target THEN FileNode(data) ELSE fs[x]]]

\* fs.unlink(p)
unlinkSys(fs, p) ==
    LET st == statSys(fs, p)
    IN  IF st = "dir" THEN [err |-> "EISDIR", fs |-> fs]
        ELSE IF st # "file" THEN [err |-> st, fs |-> fs]
        ELSE [err |-> "", fs |-> [x \in DOMAIN fs \ {Loc(p)} |-> fs[x]]]

\* ------------------------------------------------------------------------
\* Results of a storage call: kind is "ok", one of the typed errors
\* "AccessDenied", "FileNotFound", "PathNotFile", or "Error" for any other
\* (untyped) error the call lets through.
\* ------------------------------------------------------------------------
Res(kind, value) == [kind |-> kind, value |-> value]
ResFs(kind, value, fs) == [kind |-> kind, value |-> value, store |-> fs]
None == <<>>

\* ------------------------------------------------------------------------
\* Local-filesystem backend (services/fileAccessService.ts)
\* ------------------------------------------------------------------------
buildProjectPath(project, paths) == join(<<Cwd, Data, project.folder>> \o paths)

validatePathSecurity(filePath, project) ==
    StartsWith(resolve(filePath), buildProjectPath(project, <<>>))

\* the stat-based pre-check shared by readFile, deleteFile, createReadStream
statCheck(fs, fullPath) ==
    LET st == statSys(fs, fullPath)
    IN  IF st = "ENOENT" THEN "FileNotFound"
        ELSE IF st = "dir" THEN "PathNotFile"
        ELSE IF st = "file" THEN "ok"
        ELSE "Error"

fsReadFile(fs, project, filePath) ==
    LET fullPath == buildProjectPath(project, <<filePath>>)
        checked == statCheck(fs, fullPath)
    IN  IF ~validatePathSecurity(fullPath, project) THEN Res("AccessDenied", None)
        ELSE IF checked # "ok" THEN Res(checked, None)
        ELSE Res("ok", Utf8Decode(fs[Loc(fullPath)].data))

fsWriteFile(fs, project, filePath, content) ==
    LET fullPath == buildProjectPath(project, <<filePath>>)
        made == mkdirSys(fs, Comps(dirname(fullPath)), 0)
        written == writeFileSys(made.fs, fullPath, Utf8Encode(content))
    IN  IF ~validatePathSecurity(fullPath, project) THEN ResFs("AccessDenied", None, fs)
        ELSE IF made.err # "" THEN ResFs("Error", None, made.fs)
        ELSE IF written.err # "" THEN ResFs("Error", None, written.fs)
        ELSE ResFs("ok", None, written.fs)

fsDeleteFile(fs, project, filePath) ==
    LET fullPath == buildProjectPath(project, <<filePath>>)
        checked == statCheck(fs, fullPath)
        unlinked == unlinkSys(fs, fullPath)
    IN  IF ~validatePathSecurity(fullPath, project) THEN ResFs("AccessDenied", None, fs)
        ELSE IF checked # "ok" THEN ResFs(checked, None, fs)
        ELSE IF unlinked.err # "" THEN ResFs("Error", None, fs)
        ELSE ResFs("ok", None, unlinked.fs)

\* the stream is returned unread; value is the node it will read
fsCreateReadStream(fs, project, filePath) ==
    LET fullPath == buildProjectPath(project, <<filePath>>)
        checked == statCheck(fs, fullPath)
    IN  IF ~validatePathSecurity(fullPath, project) THEN Res("AccessDenied", None)
        ELSE IF checked # "ok" THEN Res(checked, None)
        ELSE Res("ok", Loc(fullPath))

\* the whole body is inside try/catch: every error resolves to false
fsFileExists(fs, project, filePath) ==
    LET fullPath == buildProjectPath(project, <<filePath>>)
    IN  IF ~validatePathSecurity(fullPath, project) THEN Res("ok", FALSE)
        ELSE IF accessSys(fs, fullPath) # "" THEN Res("ok", FALSE)
        ELSE Res("ok", TRUE)

\* fs.stat's error is passed on as it is
fsGetFileStats(fs, project, filePath) ==
    LET fullPath == buildProjectPath(project, <<filePath>>)
        stats == statSys(fs, fullPath)
    IN  IF ~validatePathSecurity(fullPath, project) THEN Res("AccessDenied", None)
        ELSE IF stats \in {"file", "dir"} THEN Res("ok", stats)
        ELSE Res("Error", None)

\* path.relative(baseDir, fullPath) for a fullPath beneath baseDir
relative(baseDir, fullPath) == SubSeq(fullPath, Len(baseDir) + 2, Len(fullPath))

\* readdir of dirPath and of every directory beneath it; a readdir that
\* fails is logged and contributes nothing
listFilesRecursively(fs, dirPath, baseDir) ==
    IF statSys(fs, dirPath) # "dir" THEN {}
    ELSE {relative(baseDir, f) :
            f \in {x \in DOMAIN fs : fs[x].kind = "file" /\ StartsWith(x, dirPath \o <<"/">>)}}

fsListFiles(fs, project) ==
    LET projectPath == buildProjectPath(project, <<>>)
    IN  IF accessSys(fs, projectPath) # "" THEN Res("ok", {})
        ELSE Res("ok", listFilesRecursively(fs, projectPath, projectPath))

fsEnsureDirectory(fs, project, dirPath) ==
    LET fullPath == buildProjectPath(project, <<dirPath>>)
        made == mkdirSys(fs, Comps(fullPath), 0)
    IN  IF ~validatePathSecurity(fullPath, project) THEN ResFs("AccessDenied", None, fs)
        ELSE IF made.err # "" THEN ResFs("Error", None, made.fs)
        ELSE ResFs("ok", None, made.fs)

\* ------------------------------------------------------------------------
\* Object-store backend (the S3 fileAccessService).  s3 maps the key of
\* every stored object to its body.
\* ------------------------------------------------------------------------
\* String.replace(/^(\.\.(\/|\\|$))+/, ""): strips the leading ".." segments
RECURSIVE stripLeadingDotDot(_)
stripLeadingDotDot(s) ==
    IF s = DotDot THEN <<>>
    ELSE IF Len(s) >= 3 /\ SubSeq(s, 1, 2) = DotDot /\ s[3] \in {"/", "\\"}
    THEN stripLeadingDotDot(SubSeq(s, 4, Len(s)))
    ELSE s

buildS3Key(project, filePath) ==
    IF Len(filePath) = 0 THEN project.folder \o <<"/">>
    ELSE LET normalizedPath == stripLeadingDotDot(normalize(filePath))
             key == project.folder \o <<"/">> \o normalizedPath
         IN  [i \in 1..Len(key) |-> IF key[i] = "\\" THEN "/" ELSE key[i]]

s3ValidatePathSecurity(filePath) ==
    LET normalized == normalize(filePath)
    IN  ~Includes(normalized, DotDot) /\ ~isAbsolute(normalized)

s3ReadFile(s3, project, filePath) ==
    LET key == buildS3Key(project, filePath)
    IN  IF ~s3ValidatePathSecurity(filePath) THEN Res("AccessDenied", None)
        ELSE IF key \notin DOMAIN s3 THEN Res("FileNotFound", None)
        ELSE Res("ok", Utf8Decode(s3[key]))

\* a put that keeps the body of an object that is already there
putObjectOnce(s3, key, body) == [k \in DOMAIN s3 \cup {key} |-> IF k \in DOMAIN s3 THEN s3[k] ELSE body]

putObject(s3, key, body) == [k \in DOMAIN s3 \cup {key} |-> IF k = key THEN body ELSE s3[k]]

s3WriteFile(s3, project, filePath, content) ==
    IF ~s3ValidatePathSecurity(filePath) THEN ResFs("AccessDenied", None, s3)
    ELSE ResFs("ok", None, putObject(s3, buildS3Key(project, filePath), Utf8Encode(content)))

s3WriteBinaryFile(s3, project, filePath, buffer) ==
    IF ~s3ValidatePathSecurity(filePath) THEN ResFs("AccessDenied", None, s3)
    ELSE ResFs("ok", None, putObject(s3, buildS3Key(project, filePath), buffer))

s3DeleteFile(s3, project, filePath) ==
    LET key == buildS3Key(project, filePath)
    IN  IF ~s3ValidatePathSecurity(filePath) THEN ResFs("AccessDenied", None, s3)
        ELSE IF key \notin DOMAIN s3 THEN ResFs("FileNotFound", None, s3)
        ELSE ResFs("ok", None, [k \in DOMAIN s3 \ {key} |-> s3[k]])

s3CreateReadStream(s3, project, filePath) ==
    LET key == buildS3Key(project, filePath)
    IN  IF ~s3ValidatePathSecurity(filePath) THEN Res("AccessDenied", None)
        ELSE IF key \notin DOMAIN s3 THEN Res("FileNotFound", None)
        ELSE Res("ok", key)

\* an existence check without the path-security check
s3FileExistsUnchecked(s3, project, filePath) ==
    IF buildS3Key(project, filePath) \notin DOMAIN s3 THEN Res("ok", FALSE)
    ELSE Res("ok", TRUE)

s3FileExists(s3, project, filePath) ==
    IF ~s3ValidatePathSecurity(filePath) THEN Res("ok", FALSE)
    ELSE IF buildS3Key(project, filePath) \notin DOMAIN s3 THEN Res("ok", FALSE)
    ELSE Res("ok", TRUE)

s3GetFileStats(s3, project, filePath) ==
    IF ~s3ValidatePathSecurity(filePath) THEN Res("AccessDenied", None)
    ELSE IF buildS3Key(project, filePath) \notin DOMAIN s3 THEN Res("FileNotFound", None)
    ELSE Res("ok", "file")

\* ListObjectsV2 by prefix, all pages; the prefix is cut off every key and
\* the key equal to the prefix is left out
s3ListFiles(s3, project) ==
    LET prefix == buildS3Key(project, <<>>)
    IN  Res("ok", {SubSeq(k, Len(prefix) + 1, Len(k)) :
                     k \in {x \in DOMAIN s3 : StartsWith(x, prefix) /\ Len(x) > Len(prefix)}})

s3EnsureDirectory(s3, project, dirPath) ==
    IF ~s3ValidatePathSecurity(dirPath) THEN ResFs("AccessDenied", None, s3)
    ELSE ResFs("ok", None, s3)

\* ------------------------------------------------------------------------
\* State
\* ------------------------------------------------------------------------
VARIABLES
    backend,    \* "local" or "s3": the storage service the server was built with
    registry,   \* the projects of the registry
    localFs,    \* the filesystem of the local backend
    bucket,     \* the objects of the bucket of the object-store backend
    last,       \* the last storage call: its arguments and what it returned
    reqs,       \* the requests in the serving pipeline
    twin,       \* the last call as the object store answered it, when the
                \* same calls are made on both backends
    db,         \* the tables projects and project_hosts, and the id sequence
    ops         \* the registry operations and storage calls under way

vars == <<backend, registry, localFs, bucket, last, reqs, twin, db, ops>>

\* the tables before any project is created
NoTables == [projects |-> {}, project_hosts |-> {}, seq |-> 0]

\* the record of a call: what it was given, how it ended (kind) and what it
\* returned: the content read or the node a stream reads (value), the answer
\* of fileExists (exists), the listing (files), the kind of node stat found
Call(op, project, path, content, r) ==
    [op |-> op, project |-> project.id, path |-> path, content |-> content,
     kind |-> r.kind,
     value |-> IF op \in {"readFile", "createReadStream"} THEN r.value ELSE None,
     exists |-> IF op = "fileExists" THEN r.value ELSE FALSE,
     files |-> IF op = "listFiles" THEN r.value ELSE {},
     stats |-> IF op = "getFileStats" /\ r.kind = "ok" THEN r.value ELSE ""]

\* before the first call
NoCall ==
    [op |-> "none", project |-> 0, path |-> None, content |-> None,
     kind |-> "ok", value |-> None, exists |-> FALSE, files |-> {}, stats |-> ""]

\* the working directory exists; data/ and the project folders are made by
\* the first write
InitFs == [x \in {<<"/">>, Cwd} |-> DirNode]
InitBucket == [k \in {} |-> <<>>]

Init ==
    /\ backend \in {"local", "s3"}
    /\ registry = SeedProjects
    /\ db = NoTables
    /\ ops = <<>>
    /\ localFs = InitFs
    /\ bucket = InitBucket
    /\ last = NoCall
    /\ reqs = <<>>
    /\ twin = NoCall

\* ------------------------------------------------------------------------
\* Calls of the local-filesystem service
\* ------------------------------------------------------------------------
ReadFileLocal ==
    /\ backend = "local"
    /\ \E project \in registry, filePath \in RelPaths :
          last' = Call("readFile", project, filePath, None, fsReadFile(localFs, project, filePath))
    /\ UNCHANGED <<backend, registry, localFs, bucket, reqs, twin, db, ops>>

WriteFileLocal ==
    /\ backend = "local"
    /\ \E project \in registry, filePath \in RelPaths, content \in Contents :
          LET r == fsWriteFile(localFs, project, filePath, content)
          IN  /\ Cardinality(DOMAIN r.store) <= MaxNodes
              /\ localFs' = r.store
              /\ last' = Call("writeFile", project, filePath, content, r)
    /\ UNCHANGED <<backend, registry, bucket, reqs, twin, db, ops>>

DeleteFileLocal ==
    /\ backend = "local"
    /\ \E project \in registry, filePath \in RelPaths :
          LET r == fsDeleteFile(localFs, project, filePath)
          IN  /\ localFs' = r.store
              /\ last' = Call("deleteFile", project, filePath, None, r)
    /\ UNCHANGED <<backend, registry, bucket, reqs, twin, db, ops>>

CreateReadStreamLocal ==
    /\ backend = "local"
    /\ \E project \in registry, filePath \in RelPaths :
          last' = Call("createReadStream", project, filePath, None,
                       fsCreateReadStream(localFs, project, filePath))
    /\ UNCHANGED <<backend, registry, localFs, bucket, reqs, twin, db, ops>>

FileExistsLocal ==
    /\ backend = "local"
    /\ \E project \in registry, filePath \in RelPaths :
          last' = Call("fileExists", project, filePath, None,
                       fsFileExists(localFs, project, filePath))
    /\ UNCHANGED <<backend, registry, localFs, bucket, reqs, twin, db, ops>>

GetFileStatsLocal ==
    /\ backend = "local"
    /\ \E project \in registry, filePath \in RelPaths :
          last' = Call("getFileStats", project, filePath, None,
                       fsGetFileStats(localFs, project, filePath))
    /\ UNCHANGED <<backend, registry, localFs, bucket, reqs, twin, db, ops>>

ListFilesLocal ==
    /\ backend = "local"
    /\ \E project \in registry :
          last' = Call("listFiles", project, None, None, fsListFiles(localFs, project))
    /\ UNCHANGED <<backend, registry, localFs, bucket, reqs, twin, db, ops>>

EnsureDirectoryLocal ==
    /\ backend = "local"
    /\ \E project \in registry, dirPath \in RelPaths :
          LET r == fsEnsureDirectory(localFs, project, dirPath)
          IN  /\ Cardinality(DOMAIN r.store) <= MaxNodes
              /\ localFs' = r.store
              /\ last' = Call("ensureDirectory", project, dirPath, None, r)
    /\ UNCHANGED <<backend, registry, bucket, reqs, twin, db, ops>>

\* ------------------------------------------------------------------------
\* Calls of the object-store service
\* ------------------------------------------------------------------------
ReadFileS3 ==
    /\ backend = "s3"
    /\ \E project \in registry, filePath \in RelPaths :
          last' = Call("readFile", project, filePath, None, s3ReadFile(bucket, project, filePath))
    /\ UNCHANGED <<backend, registry, localFs, bucket, reqs, twin, db, ops>>

WriteFileS3 ==
    /\ backend = "s3"
    /\ \E project \in registry, filePath \in RelPaths, content \in Contents :
          LET r == s3WriteFile(bucket, project, filePath, content)
          IN  /\ Cardinality(DOMAIN r.store) <= MaxObjects
              /\ bucket' = r.store
              /\ last' = Call("writeFile", project, filePath, content, r)
    /\ UNCHANGED <<backend, registry, localFs, reqs, twin, db, ops>>

WriteBinaryFileS3 ==
    /\ backend = "s3"
    /\ \E project \in registry, filePath \in RelPaths, buffer \in Buffers :
          LET r == s3WriteBinaryFile(bucket, project, filePath, buffer)
          IN  /\ Cardinality(DOMAIN r.store) <= MaxObjects
              /\ bucket' = r.store
              /\ last' = Call("writeBinaryFile", project, filePath, buffer, r)
    /\ UNCHANGED <<backend, registry, localFs, reqs, twin, db, ops>>

DeleteFileS3 ==
    /\ backend = "s3"
    /\ \E project \in registry, filePath \in RelPaths :
          LET r == s3DeleteFile(bucket, project, filePath)
          IN  /\ bucket' = r.store
              /\ last' = Call("deleteFile", project, filePath, None, r)
    /\ UNCHANGED <<backend, registry, localFs, reqs, twin, db, ops>>

CreateReadStreamS3 ==
    /\ backend = "s3"
    /\ \E project \in registry, filePath \in RelPaths :
          last' = Call("createReadStream", project, filePath, None,
                       s3CreateReadStream(bucket, project, filePath))
    /\ UNCHANGED <<backend, registry, localFs, bucket, reqs, twin, db, ops>>

FileExistsS3 ==
    /\ backend = "s3"
    /\ \E project \in registry, filePath \in RelPaths :
          last' = Call("fileExists", project, filePath, None,
                       s3FileExists(bucket, project, filePath))
    /\ UNCHANGED <<backend, registry, localFs, bucket, reqs, twin, db, ops>>

GetFileStatsS3 ==
    /\ backend = "s3"
    /\ \E project \in registry, filePath \in RelPaths :
          last' = Call("getFileStats", project, filePath, None,
                       s3GetFileStats(bucket, project, filePath))
    /\ UNCHANGED <<backend, registry, localFs, bucket, reqs, twin, db, ops>>

ListFilesS3 ==
    /\ backend = "s3"
    /\ \E project \in registry :
          last' = Call("listFiles", project, None, None, s3ListFiles(bucket, project))
    /\ UNCHANGED <<backend, registry, localFs, bucket, reqs, twin, db, ops>>

EnsureDirectoryS3 ==
    /\ backend = "s3"
    /\ \E project \in registry, dirPath \in RelPaths :
          LET r == s3EnsureDirectory(bucket, project, dirPath)
          IN  /\ bucket' = r.store
              /\ last' = Call("ensureDirectory", project, dirPath, None, r)
    /\ UNCHANGED <<backend, registry, localFs, reqs, twin, db, ops>>

Next ==
    \/ ReadFileLocal \/ WriteFileLocal \/ DeleteFileLocal \/ CreateReadStreamLocal
    \/ FileExistsLocal \/ GetFileStatsLocal \/ ListFilesLocal \/ EnsureDirectoryLocal
    \/ ReadFileS3 \/ WriteFileS3 \/ WriteBinaryFileS3 \/ DeleteFileS3
    \/ CreateReadStreamS3 \/ FileExistsS3 \/ GetFileStatsS3 \/ ListFilesS3
    \/ EnsureDirectoryS3

Spec == Init /\ [][Next]_vars

\* ------------------------------------------------------------------------
\* The serving pipeline (middleware/projectResolver.ts, middleware/fileLoader.ts)
\* ------------------------------------------------------------------------
\* the concurrent requests
ReqIds == 1..MaxRequests

\* req.hostname of a request
ReqHosts == {FooHost, FooBarHost, OtherHost}

\* req.path of a request: the root, a stylesheet, a climb into the sibling
\* folder, and a traversal attempt without and with ".html"
ReqPaths ==
    { <<"/">>, <<"/">> \o XCss,
      <<"/", ".", ".", "/">> \o FooBar \o <<"/">> \o XCss,
      <<"/", ".", ".", "/", ".", ".", "/", "e", "t", "c", "/", "p", "a", "s", "s", "w", "d">>,
      <<"/", ".", ".", "/", ".", ".", "/", "e", "t", "c", "/", "p", "a", "s", "s", "w", "d", ".", "h", "t", "m", "l">> }

\* the traversal attempts of the STREAM and of the RENDER branch
TraversalPaths == { <<"/", ".", ".", "/", ".", ".", "/", "e", "t", "c", "/", "p", "a", "s", "s", "w", "d">>, <<"/", ".", ".", "/", ".", ".", "/", "e", "t", "c", "/", "p", "a", "s", "s", "w", "d", ".", "h", "t", "m", "l">> }

\* path.extname (posix): from the last "." of the last path component, unless
\* that "." starts the component or the component is ".."
extname(p) ==
    LET comps == SelectSeq(Split(p), LAMBDA s : s # <<>>)
        base == IF Len(comps) = 0 THEN <<>> ELSE comps[Len(comps)]
        dots == {k \in 1..Len(base) : base[k] = "."}
        startDot == CHOOSE k \in dots : \A j \in dots : j <= k
    IN  IF dots = {} \/ base = DotDot THEN <<>>
        ELSE IF startDot = 1 THEN <<>>
        ELSE SubSeq(base, startDot, Len(base))

\* String.prototype.toLowerCase on the letters the model uses
toLowerCase(s) ==
    [i \in 1..Len(s) |->
        CASE s[i] = "H" -> "h" [] s[i] = "T" -> "t" [] s[i] = "M" -> "m"
          [] s[i] = "L" -> "l" [] s[i] = "C" -> "c" [] s[i] = "S" -> "s"
          [] s[i] = "F" -> "f" [] s[i] = "B" -> "b" [] s[i] = "D" -> "d"
          [] s[i] = "E" -> "e" [] s[i] = "O" -> "o" [] s[i] = "Eacute" -> "eacute"
          [] OTHER -> s[i]]

\* mime.lookup: by the extension of "x." + path; "" stands for false
mimeLookup(p) ==
    LET ext == toLowerCase(extname(<<"x", ".">> \o p))
        extension == IF Len(ext) = 0 THEN <<>> ELSE Tail(ext)
    IN  IF extension = <<"c", "s", "s">> THEN "text/css"
        ELSE IF extension = <<"h", "t", "m", "l">> THEN "text/html"
        ELSE ""

\* res.json({ error: message })
jsonError(message) == <<"{", "\"", "e", "r", "r", "o", "r", "\"", ":", "\"">> \o message \o <<"\"", "}">>

ProjectNotFoundBody == jsonError(<<"P", "r", "o", "j", "e", "c", "t", " ", "n", "o", "t", " ", "f", "o", "u", "n", "d">>)
AccessDeniedBody == jsonError(<<"A", "c", "c", "e", "s", "s", " ", "d", "e", "n", "i", "e", "d">>)
PathNotFileBody == jsonError(<<"P", "a", "t", "h", " ", "i", "s", " ", "n", "o", "t", " ", "a", " ", "f", "i", "l", "e">>)
InternalErrorBody == jsonError(<<"I", "n", "t", "e", "r", "n", "a", "l", " ", "s", "e", "r", "v", "e", "r", " ", "e", "r", "r", "o", "r">>)
StreamErrorBody == jsonError(<<"E", "r", "r", "o", "r", " ", "s", "t", "r", "e", "a", "m", "i", "n", "g", " ", "f", "i", "l", "e">>)

\* SELECT project_id FROM project_hosts WHERE host = $1: the id of the project
\* the host row points at, 0 when there is no such row
hostOwner(reg, hostname) ==
    LET owners == {p \in reg : \E k \in DOMAIN p.hosts : p.hosts[k] = hostname}
    IN  IF owners = {} THEN 0 ELSE (CHOOSE p \in owners : TRUE).id

\* the orders in which SELECT * FROM project_hosts WHERE project_id = $1 may
\* return the host rows: the query has no ORDER BY
hostRowOrders(hosts) ==
    {order \in [1..Len(hosts) -> {hosts[k] : k \in 1..Len(hosts)}] :
        \A h \in {hosts[k] : k \in 1..Len(hosts)} : \E k \in 1..Len(order) : order[k] = h}

\* a lookup that answers from the registry as it was at start-up
findProjectByHostCached(reg, hostname) ==
    LET id == hostOwner(SeedProjects, hostname)
    IN  IF id = 0 THEN NoProject ELSE CHOOSE p \in SeedProjects : p.id = id

\* findProjectByHost up to its last query: the project row the host row
\* points at, with the hosts the registry lists for it
findProjectByHost(reg, hostname) ==
    LET id == hostOwner(reg, hostname)
    IN  IF id = 0 THEN NoProject ELSE CHOOSE p \in reg : p.id = id

\* ------------------------------------------------------------------------
\* LayoutRenderer: the two String.prototype.replace calls of fileLoader
\* ------------------------------------------------------------------------
ContentPlaceholder == <<"{", "{", "c", "o", "n", "t", "e", "n", "t", "}", "}">>

\* the replacement patterns of String.prototype.replace with a string
\* pattern: $$ is "$", $& the match, $` the text before it, $' the text after
RECURSIVE expandReplacement(_, _, _, _)
expandReplacement(repl, matched, before, after) ==
    IF repl = <<>> THEN <<>>
    ELSE IF repl[1] = "$" /\ Len(repl) >= 2 /\ repl[2] \in {"$", "&", "`", "'"}
    THEN (CASE repl[2] = "$" -> <<"$">>
            [] repl[2] = "&" -> matched
            [] repl[2] = "`" -> before
            [] repl[2] = "'" -> after)
         \o expandReplacement(SubSeq(repl, 3, Len(repl)), matched, before, after)
    ELSE <<repl[1]>> \o expandReplacement(Tail(repl), matched, before, after)

\* layoutContent.replace("{{content}}", fileContent): the first occurrence only
replaceContent(layoutContent, fileContent) ==
    LET n == Len(ContentPlaceholder)
        hits == {i \in 1..(Len(layoutContent) - n + 1) :
                    SubSeq(layoutContent, i, i + n - 1) = ContentPlaceholder}
        at == CHOOSE i \in hits : \A j \in hits : i <= j
        before == SubSeq(layoutContent, 1, at - 1)
        after == SubSeq(layoutContent, at + n, Len(layoutContent))
    IN  IF hits = {} THEN layoutContent
        ELSE before \o expandReplacement(fileContent, ContentPlaceholder, before, after)
                    \o after

\* the characters \w matches
WordChars ==
    {"a", "b", "c", "d", "e", "f", "g", "h", "i", "j", "k", "l", "m", "n", "o", "p",
     "q", "r", "s", "t", "u", "v", "w", "x", "y", "z", "A", "B", "C", "D", "E", "F",
     "G", "H", "I", "J", "K", "L", "M", "N", "O", "P", "Q", "R", "S", "T", "U", "V",
     "W", "X", "Y", "Z", "0", "1", "2", "3", "4", "5", "6", "7", "8", "9", "_"}

\* length of the run of word characters of s that starts at position i
RECURSIVE wordRun(_, _)
wordRun(s, i) == IF i <= Len(s) /\ s[i] \in WordChars THEN 1 + wordRun(s, i + 1) ELSE 0

\* JSON.stringify of a number, of a string, of an array of strings
RECURSIVE jsonNumber(_)
jsonNumber(n) ==
    LET digit == <<"0", "1", "2", "3", "4", "5", "6", "7", "8", "9">>[(n % 10) + 1]
    IN  IF n < 10 THEN <<digit>> ELSE jsonNumber(n \div 10) \o <<digit>>

RECURSIVE jsonEscape(_)
jsonEscape(s) ==
    IF s = <<>> THEN <<>>
    ELSE (IF s[1] \in {"\"", "\\"} THEN <<"\\", s[1]>> ELSE <<s[1]>>) \o jsonEscape(Tail(s))

jsonString(s) == <<"\"">> \o jsonEscape(s) \o <<"\"">>

RECURSIVE jsonStrings(_)
jsonStrings(list) ==
    IF list = <<>> THEN <<>>
    ELSE jsonString(list[1])
         \o (IF Len(list) > 1 THEN <<",">> ELSE <<>>) \o jsonStrings(Tail(list))

\* properties every object inherits: functions, and the prototype itself
InheritedFunctions == { <<"c", "o", "n", "s", "t", "r", "u", "c", "t", "o", "r">>, <<"t", "o", "S", "t", "r", "i", "n", "g">>, <<"v", "a", "l", "u", "e", "O", "f">> }
ProtoProperty == <<"_", "_", "p", "r", "o", "t", "o", "_", "_">>

\* the callback of the second replace: `variable in req.project` is true of
\* own and of inherited properties; a string is inserted verbatim, anything
\* else through JSON.stringify, whose undefined result is inserted by replace
\* as the text "undefined"
placeholderValue(project, variable) ==
    IF variable = <<"i", "d">> THEN jsonNumber(project.id)
    ELSE IF variable = <<"n", "a", "m", "e">> THEN project.name
    ELSE IF variable = <<"c", "o", "l", "o", "r">> THEN project.color
    ELSE IF variable = <<"f", "o", "l", "d", "e", "r">> THEN project.folder
    ELSE IF variable = <<"h", "o", "s", "t", "s">> THEN <<"[">> \o jsonStrings(project.hosts) \o <<"]">>
    ELSE IF variable \in InheritedFunctions THEN <<"u", "n", "d", "e", "f", "i", "n", "e", "d">>
    ELSE IF variable = ProtoProperty THEN <<"{", "}">>
    ELSE <<>>

\* a replace that scans the value it has just substituted
RECURSIVE replacePlaceholdersRescan(_, _)
replacePlaceholdersRescan(s, project) ==
    LET n == wordRun(s, 3)
    IN  IF Len(s) < 5 THEN s
        ELSE IF s[1] = "{" /\ s[2] = "{" /\ n >= 1 /\ Len(s) >= n + 4
                /\ s[n + 3] = "}" /\ s[n + 4] = "}"
        THEN replacePlaceholdersRescan(placeholderValue(project, SubSeq(s, 3, n + 2))
                                           \o SubSeq(s, n + 5, Len(s)), project)
        ELSE <<s[1]>> \o replacePlaceholdersRescan(Tail(s), project)

\* renderedContent.replace(/\{\{(\w+)\}\}/g, callback): one pass, left to right
RECURSIVE replacePlaceholders(_, _)
replacePlaceholders(s, project) ==
    LET n == wordRun(s, 3)
    IN  IF Len(s) < 5 THEN s
        ELSE IF s[1] = "{" /\ s[2] = "{" /\ n >= 1 /\ Len(s) >= n + 4
                /\ s[n + 3] = "}" /\ s[n + 4] = "}"
        THEN placeholderValue(project, SubSeq(s, 3, n + 2))
             \o replacePlaceholders(SubSeq(s, n + 5, Len(s)), project)
        ELSE <<s[1]>> \o replacePlaceholders(Tail(s), project)

render(layoutContent, fileContent, project) ==
    replacePlaceholders(replaceContent(layoutContent, fileContent), project)

\* ------------------------------------------------------------------------
\* The storage service the pipeline calls
\* ------------------------------------------------------------------------
createReadStream(b, fs, s3, project, filePath) ==
    IF b = "local" THEN fsCreateReadStream(fs, project, filePath)
    ELSE s3CreateReadStream(s3, project, filePath)

readFile(b, fs, s3, project, filePath) ==
    IF b = "local" THEN fsReadFile(fs, project, filePath)
    ELSE s3ReadFile(s3, project, filePath)

\* what the files of the two projects hold when the requests arrive: written
\* through the service by earlier calls.  Project foo has a layout, a page, a
\* stylesheet and a sub-folder; project foobar a page and a stylesheet.
SeedWrites ==
    <<[project |-> ProjectFoo, path |-> XCss, content |-> <<"a">>],
      [project |-> ProjectFooBar, path |-> XCss, content |-> <<"b">>],
      [project |-> ProjectFoo, path |-> IndexHtml, content |-> <<"p", "$", "&">>],
      [project |-> ProjectFooBar, path |-> IndexHtml, content |-> <<"q", "{", "{", "i", "d", "}", "}">>],
      [project |-> ProjectFoo, path |-> FooBar \o <<"/">> \o XCss, content |-> <<"c">>],
      [project |-> ProjectFoo, path |-> LayoutHtml,
       content |-> <<"<", "{", "{", "c", "o", "n", "t", "e", "n", "t", "}", "}", "|", "{", "{", "n", "a", "m", "e", "}", "}", "{", "{", "x", "}", "}", ">">>]>>

RECURSIVE SeedFs(_)
SeedFs(n) ==
    IF n = 0 THEN InitFs
    ELSE fsWriteFile(SeedFs(n - 1), SeedWrites[n].project, SeedWrites[n].path,
                     SeedWrites[n].content).store

RECURSIVE SeedBucket(_)
SeedBucket(n) ==
    IF n = 0 THEN InitBucket
    ELSE s3WriteFile(SeedBucket(n - 1), SeedWrites[n].project, SeedWrites[n].path,
                     SeedWrites[n].content).store

\* ------------------------------------------------------------------------
\* A request in the pipeline.  pc is the await the request is suspended at:
\* "resolver" (the host query of findProjectByHost), "hosts" (its last
\* query), "open" (createReadStream), "pipe" (the
\* stream, nothing sent yet), "piping" (headers and part of the body sent),
\* "read" (readFile of the page), "layout" (readFile of _layout.html);
\* "done" when the response is complete or control was passed on, "broken"
\* when the stream failed after the headers were sent.
\* ------------------------------------------------------------------------
NewRequest(host, path) ==
    [host |-> host, path |-> path, pc |-> "resolver", projectId |-> 0,
     project |-> NoProject,
     requestedPath |-> <<>>, stream |-> [at |-> <<>>, data |-> <<>>],
     fileContent |-> <<>>, error |-> "", layoutError |-> "",
     status |-> 0, contentType |-> "", body |-> <<>>, headersSent |-> FALSE,
     resolverNext |-> 0, loaderNext |-> 0]

\* res.status(status).json(body)
Json(r, status, body) ==
    [r EXCEPT !.pc = "done", !.status = status, !.contentType = "application/json",
              !.body = body, !.headersSent = TRUE]

\* res.send(content): the string goes out UTF-8 encoded, with status 200
Send(r, content) ==
    [r EXCEPT !.pc = "done", !.status = 200, !.body = Utf8Encode(content),
              !.headersSent = TRUE]

\* an outer catch without the AccessDenied case
handleErrorUntyped(r, kind) ==
    LET failed == [r EXCEPT !.error = kind]
    IN  IF kind = "FileNotFound"
        THEN [failed EXCEPT !.pc = "done", !.loaderNext = @ + 1]
        ELSE Json(failed, 500, InternalErrorBody)

\* an outer catch that answers a missing file itself
handleErrorTerminal(r, kind) ==
    LET failed == [r EXCEPT !.error = kind]
    IN  IF kind = "FileNotFound" THEN Json(failed, 404, jsonError(<<"N", "o", "t", " ", "f", "o", "u", "n", "d">>))
        ELSE IF kind = "AccessDenied" THEN Json(failed, 403, AccessDeniedBody)
        ELSE IF kind = "PathNotFile" THEN Json(failed, 400, PathNotFileBody)
        ELSE Json(failed, 500, InternalErrorBody)

\* the outer catch of fileLoader
handleError(r, kind) ==
    LET failed == [r EXCEPT !.error = kind]
    IN  IF kind = "FileNotFound"
        THEN [failed EXCEPT !.pc = "done", !.loaderNext = @ + 1]
        ELSE IF kind = "AccessDenied" THEN Json(failed, 403, AccessDeniedBody)
        ELSE IF kind = "PathNotFile" THEN Json(failed, 400, PathNotFileBody)
        ELSE Json(failed, 500, InternalErrorBody)

\* an entry that sets the Content-Type before the stream is opened
fileLoaderEntryEager(b, r) ==
    LET requestedPath0 == IF r.path = <<"/">> THEN IndexHtml ELSE r.path
        requestedPath == IF StartsWith(requestedPath0, <<"/">>)
                         THEN Tail(requestedPath0) ELSE requestedPath0
        ext == toLowerCase(extname(requestedPath))
        lookedUp == mimeLookup(requestedPath)
    IN  IF r.project = NoProject THEN Json(r, 404, ProjectNotFoundBody)
        ELSE [r EXCEPT !.requestedPath = requestedPath,
                       !.pc = IF ext # DotHtml THEN "open" ELSE "read",
                       !.contentType = IF ext = DotHtml THEN ""
                                       ELSE IF lookedUp = "" THEN "application/octet-stream"
                                       ELSE lookedUp]

\* an entry that takes the root request as it is
fileLoaderEntryNoIndex(b, r) ==
    LET requestedPath == IF StartsWith(r.path, <<"/">>) THEN Tail(r.path) ELSE r.path
        ext == toLowerCase(extname(requestedPath))
    IN  IF r.project = NoProject THEN Json(r, 404, ProjectNotFoundBody)
        ELSE [r EXCEPT !.requestedPath = requestedPath,
                       !.pc = IF ext # DotHtml THEN "open" ELSE "read"]

\* fileLoader from its entry to its first await
fileLoaderEntry(b, r) ==
    LET requestedPath0 == IF r.path = <<"/">> THEN IndexHtml ELSE r.path
        requestedPath == IF StartsWith(requestedPath0, <<"/">>)
                         THEN Tail(requestedPath0) ELSE requestedPath0
        ext == toLowerCase(extname(requestedPath))
    IN  IF r.project = NoProject THEN Json(r, 404, ProjectNotFoundBody)
        ELSE [r EXCEPT !.requestedPath = requestedPath,
                       !.pc = IF ext # DotHtml THEN "open" ELSE "read"]

\* projectResolver: the host query and the project query of the lookup; on a
\* miss nothing is attached and next() enters fileLoader
ProjectResolver(i) ==
    /\ reqs[i].pc = "resolver"
    /\ LET found == findProjectByHost(registry, reqs[i].host)
           missed == [reqs[i] EXCEPT !.resolverNext = @ + 1]
       IN  reqs' = [reqs EXCEPT ![i] =
                IF found = NoProject THEN fileLoaderEntry(backend, missed)
                ELSE [@ EXCEPT !.pc = "hosts", !.projectId = found.id]]
    /\ UNCHANGED <<backend, registry, localFs, bucket, last, twin, db, ops>>

\* the host rows of the project arrive, in any order; the project is attached
\* to the request and next() enters fileLoader
ProjectHosts(i) ==
    /\ reqs[i].pc = "hosts"
    /\ LET row == CHOOSE p \in registry : p.id = reqs[i].projectId
       IN  \E hosts \in hostRowOrders(row.hosts) :
               LET resolved == [reqs[i] EXCEPT !.project = [row EXCEPT !.hosts = hosts],
                                               !.resolverNext = @ + 1]
               IN  reqs' = [reqs EXCEPT ![i] = fileLoaderEntry(backend, resolved)]
    /\ UNCHANGED <<backend, registry, localFs, bucket, last, twin, db, ops>>

\* STREAM branch: createReadStream settles; then the Content-Type is set
OpenStream(i) ==
    /\ reqs[i].pc = "open"
    /\ LET r == reqs[i]
           opened == createReadStream(backend, localFs, bucket, r.project, r.requestedPath)
           lookedUp == mimeLookup(r.requestedPath)
       IN  reqs' = [reqs EXCEPT ![i] =
                IF opened.kind # "ok" THEN handleError(r, opened.kind)
                ELSE [r EXCEPT !.pc = "pipe",
                               !.stream = [at |-> opened.value,
                                           data |-> IF backend = "s3"
                                                    THEN bucket[opened.value] ELSE <<>>],
                               !.contentType = IF lookedUp = ""
                                               THEN "application/octet-stream"
                                               ELSE lookedUp]]
    /\ UNCHANGED <<backend, registry, localFs, bucket, last, twin, db, ops>>

\* stream.pipe(res): the first chunk sends the headers
PipeFirst(i) ==
    /\ reqs[i].pc = "pipe"
    /\ reqs' = [reqs EXCEPT ![i] = [@ EXCEPT !.pc = "piping", !.status = 200,
                                             !.headersSent = TRUE]]
    /\ UNCHANGED <<backend, registry, localFs, bucket, last, twin, db, ops>>

\* the stream ends: the response is complete
PipeEnd(i) ==
    /\ reqs[i].pc = "piping"
    /\ LET r == reqs[i]
           data == IF backend = "local" THEN localFs[r.stream.at].data ELSE r.stream.data
       IN  reqs' = [reqs EXCEPT ![i] = [r EXCEPT !.pc = "done", !.body = data]]
    /\ UNCHANGED <<backend, registry, localFs, bucket, last, twin, db, ops>>

\* the stream emits "error": answered with 500 unless the headers are out
StreamError(i) ==
    /\ reqs[i].pc \in {"pipe", "piping"}
    /\ reqs' = [reqs EXCEPT ![i] =
            IF ~reqs[i].headersSent THEN Json(reqs[i], 500, StreamErrorBody)
            ELSE [reqs[i] EXCEPT !.pc = "broken"]]
    /\ UNCHANGED <<backend, registry, localFs, bucket, last, twin, db, ops>>

\* RENDER branch: readFile of the page settles; then text/html is set
ReadPage(i) ==
    /\ reqs[i].pc = "read"
    /\ LET r == reqs[i]
           page == readFile(backend, localFs, bucket, r.project, r.requestedPath)
       IN  reqs' = [reqs EXCEPT ![i] =
                IF page.kind # "ok" THEN handleError(r, page.kind)
                ELSE [r EXCEPT !.pc = "layout", !.fileContent = page.value,
                               !.contentType = "text/html"]]
    /\ UNCHANGED <<backend, registry, localFs, bucket, last, twin, db, ops>>

\* a layout step that scans the page for placeholders when there is no layout
ReadLayoutScanned(i) ==
    /\ reqs[i].pc = "layout"
    /\ LET r == reqs[i]
           layout == readFile(backend, localFs, bucket, r.project, LayoutHtml)
       IN  reqs' = [reqs EXCEPT ![i] =
                IF layout.kind = "ok"
                THEN Send(r, render(layout.value, r.fileContent, r.project))
                ELSE Send([r EXCEPT !.layoutError = layout.kind],
                          replacePlaceholders(r.fileContent, r.project))]
    /\ UNCHANGED <<backend, registry, localFs, bucket, last, twin, db, ops>>

\* a layout step that hands every failure but a missing layout to the outer
\* catch
ReadLayoutMapped(i) ==
    /\ reqs[i].pc = "layout"
    /\ LET r == reqs[i]
           layout == readFile(backend, localFs, bucket, r.project, LayoutHtml)
       IN  reqs' = [reqs EXCEPT ![i] =
                IF layout.kind = "ok"
                THEN Send(r, render(layout.value, r.fileContent, r.project))
                ELSE IF layout.kind = "FileNotFound"
                THEN Send([r EXCEPT !.layoutError = layout.kind], r.fileContent)
                ELSE handleError([r EXCEPT !.layoutError = layout.kind], layout.kind)]
    /\ UNCHANGED <<backend, registry, localFs, bucket, last, twin, db, ops>>

\* readFile of _layout.html settles: the page is sent inside the layout, or
\* as it is when the layout cannot be read
ReadLayout(i) ==
    /\ reqs[i].pc = "layout"
    /\ LET r == reqs[i]
           layout == readFile(backend, localFs, bucket, r.project, LayoutHtml)
       IN  reqs' = [reqs EXCEPT ![i] =
                IF layout.kind = "ok"
                THEN Send(r, render(layout.value, r.fileContent, r.project))
                ELSE Send([r EXCEPT !.layoutError = layout.kind], r.fileContent)]
    /\ UNCHANGED <<backend, registry, localFs, bucket, last, twin, db, ops>>

\* the requests bear their numbers in the order of host and path (no two
\* hosts and no two paths of the model have the same length): which of two
\* requests bears which number makes no difference to the pipeline
RequestOrder(r) == 100 * Len(r.host) + Len(r.path)

InitServe ==
    /\ backend \in {"local", "s3"}
    /\ registry = SeedProjects
    /\ db = NoTables
    /\ ops = <<>>
    /\ localFs = SeedFs(Len(SeedWrites))
    /\ bucket = SeedBucket(Len(SeedWrites))
    /\ last = NoCall
    /\ twin = NoCall
    /\ reqs \in [ReqIds -> {NewRequest(h, p) : h \in ReqHosts, p \in ReqPaths}]
    /\ \A i, j \in ReqIds : i < j => RequestOrder(reqs[i]) <= RequestOrder(reqs[j])

\* a storage call of the pipeline fails for a reason of the transport or of
\* the host system: the file cannot be opened or read, the layout cannot be
\* read.  The system is called only for a path that passed validatePathSecurity.
StorageFailure(i) ==
    /\ reqs[i].pc \in {"open", "read", "layout"}
    /\ LET r == reqs[i]
       IN  CASE r.pc = "open" ->
                  createReadStream(backend, localFs, bucket, r.project, r.requestedPath).kind
                      # "AccessDenied"
             [] r.pc = "read" ->
                  readFile(backend, localFs, bucket, r.project, r.requestedPath).kind
                      # "AccessDenied"
             [] OTHER -> TRUE
    /\ reqs' = [reqs EXCEPT ![i] =
            IF reqs[i].pc = "layout"
            THEN Send([reqs[i] EXCEPT !.layoutError = "Error"], reqs[i].fileContent)
            ELSE handleError(reqs[i], "Error")]
    /\ UNCHANGED <<backend, registry, localFs, bucket, last, twin, db, ops>>

NextServe ==
    \E i \in DOMAIN reqs :
        \/ ProjectResolver(i)
        \/ ProjectHosts(i)
        \/ OpenStream(i)
        \/ PipeFirst(i)
        \/ PipeEnd(i)
        \/ StreamError(i)
        \/ ReadPage(i)
        \/ ReadLayout(i)
        \/ StorageFailure(i)

SpecServe == InitServe /\ [][NextServe]_vars

\* ------------------------------------------------------------------------
\* The pipeline while the registry changes: hosts are transferred between
\* the projects as the requests are resolved
\* ------------------------------------------------------------------------
\* the hosts of the registry, in the order the model lists them
RegisteredHosts == <<FooHost, FooBarHost>>

\* the hosts the transfers are asked for: a registered and an unknown one
TransferHosts == {FooHost, OtherHost}

\* transferHost: false when the host or the target project is unknown;
\* otherwise the host row is pointed at the target project
TransferHost ==
    /\ \E host \in TransferHosts, targetProjectId \in 1..3 :
           registry' =
               IF hostOwner(registry, host) = 0
                  \/ ~\E p \in registry : p.id = targetProjectId
               THEN registry
               ELSE {[p EXCEPT !.hosts = SelectSeq(RegisteredHosts, LAMBDA h :
                          IF h = host THEN p.id = targetProjectId
                          ELSE \E k \in DOMAIN p.hosts : p.hosts[k] = h)] : p \in registry}
    /\ UNCHANGED <<backend, localFs, bucket, last, reqs, twin, db, ops>>

\* the requests ask in turn for the page and for the stylesheet
ResolvePath(i) == IF i % 2 = 1 THEN <<"/">> ELSE <<"/">> \o XCss

InitResolve ==
    /\ backend \in {"local", "s3"}
    /\ registry = SeedProjects
    /\ db = NoTables
    /\ ops = <<>>
    /\ localFs = SeedFs(Len(SeedWrites))
    /\ bucket = SeedBucket(Len(SeedWrites))
    /\ last = NoCall
    /\ twin = NoCall
    /\ \E hosts \in [ReqIds -> ReqHosts] :
           reqs = [i \in ReqIds |-> NewRequest(hosts[i], ResolvePath(i))]

NextResolve == NextServe \/ TransferHost

SpecResolve == InitResolve /\ [][NextResolve]_vars

\* ------------------------------------------------------------------------
\* One request to a project whose files hold one page content, with or
\* without a layout.  Here last is the call that wrote the page and twin the
\* call that wrote _layout.html (no call when the project has no layout).
\* ------------------------------------------------------------------------
\* page contents: plain text, a replacement pattern of String.replace, a
\* placeholder, and an unpaired surrogate
PageContents == { <<"p">>, <<"$", "&">>, <<"{", "{", "n", "a", "m", "e", "}", "}">>, <<"HS">> }

\* layouts: the injection point alone; attributes and an unknown identifier
\* around it; identifiers every object inherits
Layouts ==
    { <<"<", "{", "{", "c", "o", "n", "t", "e", "n", "t", "}", "}", ">">>,
      <<"{", "{", "n", "a", "m", "e", "}", "}", "{", "{", "b", "o", "g", "u", "s", "}", "}", "|", "{", "{", "c", "o", "n", "t", "e", "n", "t", "}", "}", "|", "{", "{", "i", "d", "}", "}", "{", "{", "h", "o", "s", "t", "s", "}", "}">>,
      <<"{", "{", "c", "o", "n", "s", "t", "r", "u", "c", "t", "o", "r", "}", "}", "{", "{", "c", "o", "n", "t", "e", "n", "t", "}", "}", "{", "{", "_", "_", "p", "r", "o", "t", "o", "_", "_", "}", "}">> }

\* project names: plain, and one that reads like a placeholder
PageNames == { <<"F", "o", "o">>, <<"{", "{", "i", "d", "}", "}">> }

UpperXHtml == <<"X", ".", "H", "T", "M", "L">>

\* the files of the project: two pages, a stylesheet, and a file below two
\* directories, the second named like a page
PageFiles == <<IndexHtml, XCss, UpperXHtml, FooBar \o <<"/", "d", ".", "h", "t", "m", "l", "/">> \o XCss>>

\* req.path: the root and the pages, the stylesheet, names that differ from
\* a stored one in case, the two directories, paths through the stylesheet,
\* and the traversal attempts
PagePaths ==
    { <<"/">>, <<"/">> \o IndexHtml, <<"/">> \o XCss, <<"/">> \o UpperXHtml,
      <<"/", "I", "N", "D", "E", "X", ".", "H", "T", "M", "L">>, <<"/", "X", ".", "C", "S", "S">>, <<"/">> \o FooBar, <<"/">> \o FooBar \o <<"/", "d", ".", "h", "t", "m", "l">>,
      <<"/">> \o XCss \o <<"/">> \o FooBar, <<"/">> \o XCss \o <<"/", "d", ".", "h", "t", "m", "l">> }
    \cup TraversalPaths

\* a file written below _layout.html, which makes the layout path a folder
\* of the local disk (and leaves the object store without a layout object)
LayoutFolderFile == LayoutHtml \o <<"/">> \o XCss

RECURSIVE PageFs(_, _, _)
PageFs(project, content, n) ==
    IF n = 0 THEN InitFs
    ELSE fsWriteFile(PageFs(project, content, n - 1), project, PageFiles[n], content).store

RECURSIVE PageBucket(_, _, _)
PageBucket(project, content, n) ==
    IF n = 0 THEN InitBucket
    ELSE s3WriteFile(PageBucket(project, content, n - 1), project, PageFiles[n], content).store

InitPage ==
    \E name \in PageNames, content \in PageContents, layout \in Layouts \cup {None},
       path \in PagePaths, layoutIsFolder \in BOOLEAN :
        LET project == [ProjectFoo EXCEPT !.name = name]
            files == IF layoutIsFolder
                     THEN fsWriteFile(PageFs(project, content, Len(PageFiles)), project,
                                      LayoutFolderFile, content).store
                     ELSE PageFs(project, content, Len(PageFiles))
            objects == IF layoutIsFolder
                       THEN s3WriteFile(PageBucket(project, content, Len(PageFiles)), project,
                                        LayoutFolderFile, content).store
                       ELSE PageBucket(project, content, Len(PageFiles))
        IN  /\ layoutIsFolder => layout = None
            /\ backend \in {"local", "s3"}
            /\ registry = {project, ProjectFooBar}
            /\ db = NoTables
            /\ ops = <<>>
            /\ localFs = IF layout = None THEN files
                         ELSE fsWriteFile(files, project, LayoutHtml, layout).store
            /\ bucket = IF layout = None THEN objects
                        ELSE s3WriteFile(objects, project, LayoutHtml, layout).store
            /\ last = Call("writeFile", project, IndexHtml, content, Res("ok", None))
            /\ twin = IF layout = None THEN NoCall
                      ELSE Call("writeFile", project, LayoutHtml, layout, Res("ok", None))
            /\ reqs = <<NewRequest(FooHost, path)>>

SpecPage == InitPage /\ [][NextServe]_vars

\* ------------------------------------------------------------------------
\* The same calls made on both backends, both starting empty.  last is the
\* call as the local filesystem answered it, twin as the object store did.
\* ------------------------------------------------------------------------
\* the paths of the calls made on both backends: a file, a directory, a
\* nested file, and a climb into the sibling folder
BothPaths ==
    {JoinSegs(s) : s \in {<<XCss>>, <<FooBar>>, <<FooBar, XCss>>,
                          <<DotDot, FooBar, XCss>>}}

InitBoth ==
    /\ backend = "both"
    /\ registry = SeedProjects
    /\ db = NoTables
    /\ ops = <<>>
    /\ localFs = InitFs
    /\ bucket = InitBucket
    /\ last = NoCall
    /\ twin = NoCall
    /\ reqs = <<>>

ReadFileBoth ==
    /\ \E project \in registry, filePath \in BothPaths :
          /\ last' = Call("readFile", project, filePath, None,
                          fsReadFile(localFs, project, filePath))
          /\ twin' = Call("readFile", project, filePath, None,
                          s3ReadFile(bucket, project, filePath))
    /\ UNCHANGED <<backend, registry, localFs, bucket, reqs, db, ops>>

WriteFileBoth ==
    /\ \E project \in registry, filePath \in BothPaths, content \in Contents :
          LET r == fsWriteFile(localFs, project, filePath, content)
              o == s3WriteFile(bucket, project, filePath, content)
          IN  /\ Cardinality(DOMAIN r.store) <= MaxNodes
              /\ Cardinality(DOMAIN o.store) <= MaxObjects
              /\ localFs' = r.store
              /\ bucket' = o.store
              /\ last' = Call("writeFile", project, filePath, content, r)
              /\ twin' = Call("writeFile", project, filePath, content, o)
    /\ UNCHANGED <<backend, registry, reqs, db, ops>>

DeleteFileBoth ==
    /\ \E project \in registry, filePath \in BothPaths :
          LET r == fsDeleteFile(localFs, project, filePath)
              o == s3DeleteFile(bucket, project, filePath)
          IN  /\ localFs' = r.store
              /\ bucket' = o.store
              /\ last' = Call("deleteFile", project, filePath, None, r)
              /\ twin' = Call("deleteFile", project, filePath, None, o)
    /\ UNCHANGED <<backend, registry, reqs, db, ops>>

FileExistsBoth ==
    /\ \E project \in registry, filePath \in BothPaths :
          /\ last' = Call("fileExists", project, filePath, None,
                          fsFileExists(localFs, project, filePath))
          /\ twin' = Call("fileExists", project, filePath, None,
                          s3FileExists(bucket, project, filePath))
    /\ UNCHANGED <<backend, registry, localFs, bucket, reqs, db, ops>>

ListFilesBoth ==
    /\ \E project \in registry :
          /\ last' = Call("listFiles", project, None, None, fsListFiles(localFs, project))
          /\ twin' = Call("listFiles", project, None, None, s3ListFiles(bucket, project))
    /\ UNCHANGED <<backend, registry, localFs, bucket, reqs, db, ops>>

CreateReadStreamBoth ==
    /\ \E project \in registry, filePath \in BothPaths :
          /\ last' = Call("createReadStream", project, filePath, None,
                          fsCreateReadStream(localFs, project, filePath))
          /\ twin' = Call("createReadStream", project, filePath, None,
                          s3CreateReadStream(bucket, project, filePath))
    /\ UNCHANGED <<backend, registry, localFs, bucket, reqs, db, ops>>

NextBoth ==
    \/ ReadFileBoth \/ WriteFileBoth \/ DeleteFileBoth
    \/ FileExistsBoth \/ ListFilesBoth \/ CreateReadStreamBoth

SpecBoth == InitBoth /\ [][NextBoth]_vars

\* ------------------------------------------------------------------------
\* Vocabulary of the properties
\* ------------------------------------------------------------------------
ProjectOf(id) == CHOOSE p \in registry : p.id = id

\* PathSecurity's verdict on (project, path) for backend b
Accepted(b, project, path) ==
    IF b = "local"
    THEN validatePathSecurity(buildProjectPath(project, <<path>>), project)
    ELSE s3ValidatePathSecurity(path)

\* the storage location (project, path) addresses on backend b
Location(b, project, path) ==
    IF b = "local" THEN Loc(buildProjectPath(project, <<path>>))
    ELSE buildS3Key(project, path)

\* root is loc, or a path-component prefix of loc
Within(loc, root) == loc = root \/ StartsWith(loc, root \o <<"/">>)

HasDotDotSegment(path) == \E i \in 1..Len(Split(path)) : Split(path)[i] = DotDot

ReadOf(b, fs, s3, project, path) ==
    IF b = "local" THEN fsReadFile(fs, project, path) ELSE s3ReadFile(s3, project, path)

ExistsOf(b, fs, s3, project, path) ==
    IF b = "local" THEN fsFileExists(fs, project, path) ELSE s3FileExists(s3, project, path)

ListOf(b, fs, s3, project) ==
    IF b = "local" THEN fsListFiles(fs, project).value ELSE s3ListFiles(s3, project).value

\* the files of the backend in use: location -> stored bytes
FilesOf(b, fs, s3) ==
    IF b = "local"
    THEN [x \in {y \in DOMAIN fs : fs[y].kind = "file"} |-> fs[x].data]
    ELSE s3

PathOps == {"readFile", "writeFile", "writeBinaryFile", "deleteFile", "createReadStream",
            "fileExists", "getFileStats", "ensureDirectory"}

\* ------------------------------------------------------------------------
\* C1: on the local backend, a call that PathSecurity lets through addresses
\* the project's folder itself or a location beneath it, component-wise.
\* ------------------------------------------------------------------------
C1_AcceptedStaysInFolder ==
    (backend = "local" /\ last.op \in PathOps /\ last.op # "fileExists"
        /\ last.kind # "AccessDenied")
    => Within(resolve(buildProjectPath(ProjectOf(last.project), <<last.path>>)),
              buildProjectPath(ProjectOf(last.project), <<>>))

\* ------------------------------------------------------------------------
\* C2: a path with a ".." segment or an absolute prefix is rejected by every
\* operation of both backends: AccessDenied, and false from fileExists.
\* ------------------------------------------------------------------------
C2_DotDotOrAbsoluteRejected ==
    (last.op \in PathOps /\ (HasDotDotSegment(last.path) \/ isAbsolute(last.path)))
    => IF last.op = "fileExists" THEN last.exists = FALSE ELSE last.kind = "AccessDenied"

\* ------------------------------------------------------------------------
\* Vocabulary of the serving properties
\* ------------------------------------------------------------------------
\* the root of a project's namespace on backend b
NamespaceRoot(b, project) ==
    IF b = "local" THEN buildProjectPath(project, <<>>) ELSE project.folder

\* the stored bytes of the files inside the project's namespace
OwnFiles(b, fs, s3, project) ==
    LET files == FilesOf(b, fs, s3)
    IN  {files[loc] : loc \in {x \in DOMAIN files : Within(x, NamespaceRoot(b, project))}}

\* every body that is made of the project's own files only: a file as it is
\* stored, or one of its files rendered inside another
OwnBodies(b, fs, s3, project) ==
    LET own == OwnFiles(b, fs, s3, project)
    IN  own \cup {Utf8Encode(render(Utf8Decode(l), Utf8Decode(f), project)) :
                     l \in own, f \in own}

\* ------------------------------------------------------------------------
\* C3: of two concurrent requests to the hosts of two different projects,
\* each one that is answered 200 returns content made of the files under its
\* own project's folder, whatever the interleaving of their steps.
\* ------------------------------------------------------------------------
C3_OwnContentOnly ==
    \A i \in DOMAIN reqs, j \in DOMAIN reqs :
        (/\ reqs[i].project # NoProject /\ reqs[j].project # NoProject
         /\ reqs[i].project # reqs[j].project
         /\ reqs[i].pc = "done" /\ reqs[i].status = 200)
        => reqs[i].body \in OwnBodies(backend, localFs, bucket, reqs[i].project)

\* ------------------------------------------------------------------------
\* C4: a traversal request /../../etc/passwd is answered 403 in the STREAM
\* and in the RENDER branch on both backends; every AccessDenied raised while
\* serving becomes 403 with the fixed body, which holds neither the resolved
\* absolute path nor the object key.
\* ------------------------------------------------------------------------
C4_TraversalIs403 ==
    \A i \in DOMAIN reqs :
        LET r == reqs[i]
            fullPath == buildProjectPath(r.project, <<r.requestedPath>>)
            key == buildS3Key(r.project, r.requestedPath)
        IN  /\ (r.path \in TraversalPaths /\ r.project # NoProject)
                => /\ r.pc \in {"open", "read", "done"}
                   /\ r.pc = "done" => r.status = 403
            /\ r.error = "AccessDenied"
                => /\ r.pc = "done" /\ r.status = 403 /\ r.loaderNext = 0
                   /\ r.body = AccessDeniedBody
                   /\ ~Includes(r.body, resolve(fullPath))
                   /\ ~Includes(r.body, key)
            /\ r.layoutError # "AccessDenied"

\* both branches have answered a traversal request of a registered host
C4_Witness ==
    /\ \E i \in DOMAIN reqs :
          /\ reqs[i].path \in TraversalPaths /\ extname(reqs[i].path) = DotHtml
          /\ reqs[i].error = "AccessDenied" /\ reqs[i].status = 403
    /\ \E i \in DOMAIN reqs :
          /\ reqs[i].path \in TraversalPaths /\ extname(reqs[i].path) # DotHtml
          /\ reqs[i].error = "AccessDenied" /\ reqs[i].status = 403

\* ------------------------------------------------------------------------
\* C5: a successful write followed at once by a read of the same
\* (project, path) returns exactly the content that was written.
\* ------------------------------------------------------------------------
ReadBack == ReadOf(backend, localFs, bucket, ProjectOf(last.project), last.path)

WellFormed(s) ==
    \A i \in 1..Len(s) :
        /\ s[i] = "HS" => (i < Len(s) /\ s[i + 1] = "LS")
        /\ s[i] = "LS" => (i > 1 /\ s[i - 1] = "HS")

C6_ListAfter(project) ==
    LET before == ListOf(backend, localFs, bucket, project)
        mine == last'.project = project.id /\ last'.kind = "ok"
    IN  IF mine /\ last'.op \in {"writeFile", "writeBinaryFile"} THEN before \cup {last'.path}
        ELSE IF mine /\ last'.op = "deleteFile" THEN before \ {last'.path}
        ELSE before

C6_ListIsWhatWasWritten ==
    [][\A project \in registry :
          ListOf(backend', localFs', bucket', project) = C6_ListAfter(project)]_vars

\* ------------------------------------------------------------------------
\* C7: read is AccessDenied when PathSecurity rejects; else FileNotFound when
\* nothing exists at the location; else PathNotFile when a directory is
\* there; else the stored content.  It never changes storage.
\* ------------------------------------------------------------------------
C7_Expected(b, fs, s3, project, path) ==
    LET loc == Location(b, project, path)
        files == FilesOf(b, fs, s3)
    IN  IF ~Accepted(b, project, path) THEN Res("AccessDenied", None)
        ELSE IF b = "local" /\ loc \notin DOMAIN fs THEN Res("FileNotFound", None)
        ELSE IF b = "s3" /\ loc \notin DOMAIN s3 THEN Res("FileNotFound", None)
        ELSE IF loc \notin DOMAIN files THEN Res("PathNotFile", None)
        ELSE Res("ok", Utf8Decode(files[loc]))

C7_ReadOutcomes ==
    [][last'.op = "readFile"
       => /\ [kind |-> last'.kind, value |-> last'.value]
               = C7_Expected(backend, localFs, bucket, ProjectOf(last'.project), last'.path)
          /\ UNCHANGED <<localFs, bucket>>]_vars

\* ------------------------------------------------------------------------
\* C8: delete fails with AccessDenied, FileNotFound or PathNotFile, each
\* exactly when read fails with it, and then changes nothing; when it succeeds
\* the addressed file, and only that file, is gone: exists is false, read is
\* FileNotFound, the listing no longer has it.
\* ------------------------------------------------------------------------
C8_DeleteStep ==
    LET project == ProjectOf(last'.project)
        path == last'.path
        loc == Location(backend, project, path)
        before == FilesOf(backend, localFs, bucket)
        after == FilesOf(backend', localFs', bucket')
        readBefore == ReadOf(backend, localFs, bucket, project, path)
    IN  IF last'.kind # "ok"
        THEN /\ last'.kind = readBefore.kind
             /\ last'.kind \in {"AccessDenied", "FileNotFound", "PathNotFile"}
             /\ UNCHANGED <<localFs, bucket>>
        ELSE /\ readBefore.kind = "ok"
             /\ loc \in DOMAIN before
             /\ after = [x \in DOMAIN before \ {loc} |-> before[x]]
             /\ ExistsOf(backend', localFs', bucket', project, path).value = FALSE
             /\ ReadOf(backend', localFs', bucket', project, path).kind = "FileNotFound"
             /\ path \notin ListOf(backend', localFs', bucket', project)
             /\ \A q \in registry :
                   ListOf(backend', localFs', bucket', q)
                     \subseteq ListOf(backend, localFs, bucket, q)

C8_Delete == [][last'.op = "deleteFile" => C8_DeleteStep]_vars

\* ------------------------------------------------------------------------
\* C9: write and writeBinary fail with AccessDenied only: a path PathSecurity
\* accepts is always written.
\* ------------------------------------------------------------------------
C9_WriteFailsAccessDeniedOnly ==
    last.op \in {"writeFile", "writeBinaryFile"}
    => /\ last.kind \in {"ok", "AccessDenied"}
       /\ Accepted(backend, ProjectOf(last.project), last.path) => last.kind = "ok"

\* ------------------------------------------------------------------------
\* C10: exists never throws and returns a boolean: false when PathSecurity
\* rejects or the underlying check fails, true only when something exists at
\* the accepted location; it never changes storage.
\* ------------------------------------------------------------------------
C10_ExistsStep ==
    LET project == ProjectOf(last'.project)
        path == last'.path
        loc == Location(backend, project, path)
        present == IF backend = "local" THEN loc \in DOMAIN localFs ELSE loc \in DOMAIN bucket
    IN  /\ last'.kind = "ok"
        /\ last'.exists \in BOOLEAN
        /\ ~Accepted(backend, project, path) => last'.exists = FALSE
        /\ ~present => last'.exists = FALSE
        /\ last'.exists = TRUE => (Accepted(backend, project, path) /\ present)
        /\ UNCHANGED <<localFs, bucket>>

C10_ExistsTotal == [][last'.op = "fileExists" => C10_ExistsStep]_vars

\* exists has answered false for a rejected path whose target is there
C10_Witness ==
    /\ last.op = "fileExists" /\ last.exists = FALSE
    /\ ~Accepted(backend, ProjectOf(last.project), last.path)
    /\ IF backend = "local"
       THEN Location(backend, ProjectOf(last.project), last.path) \in DOMAIN localFs
       ELSE Location(backend, ProjectOf(last.project), last.path) \in DOMAIN bucket

\* ------------------------------------------------------------------------
\* C11: the same sequence of read, write, delete, exists, list and
\* createReadStream calls, made on both backends from empty storage, gives at
\* every step the same value or the same typed error on the two backends.
\* ------------------------------------------------------------------------
TypedKinds == {"ok", "AccessDenied", "FileNotFound", "PathNotFile"}

C11_SameObservation ==
    last.op # "none"
    => /\ last.kind = twin.kind
       /\ last.kind \in TypedKinds
       /\ last.exists = twin.exists
       /\ last.files = twin.files
       /\ last.op = "readFile" => last.value = twin.value
       /\ (last.op = "createReadStream" /\ last.kind = "ok")
             => localFs[last.value].data = bucket[twin.value]

\* ------------------------------------------------------------------------
\* The STREAM branch before and after createReadStream
\* ------------------------------------------------------------------------
\* the request was routed to the STREAM branch
Streamed(r) ==
    r.project # NoProject /\ r.pc \notin {"resolver", "hosts"}
    /\ toLowerCase(extname(r.requestedPath)) # DotHtml

\* nothing of the response has been written
Untouched(r) ==
    ~r.headersSent /\ r.status = 0 /\ r.contentType = "" /\ r.body = <<>>

\* the outcome the mapping table gives a failure, on an untouched response
MappedOutcome(r) ==
    /\ r.pc = "done"
    /\ CASE r.error = "FileNotFound" -> Untouched(r) /\ r.loaderNext = 1
         [] r.error = "AccessDenied" ->
                r.status = 403 /\ r.body = AccessDeniedBody /\ r.loaderNext = 0
         [] r.error = "PathNotFile" ->
                r.status = 400 /\ r.body = PathNotFileBody /\ r.loaderNext = 0
         [] OTHER -> r.status = 500 /\ r.body = InternalErrorBody /\ r.loaderNext = 0
    /\ r.status # 0 => r.contentType = "application/json" /\ r.headersSent

\* C12: createReadStream reports AccessDenied, FileNotFound and PathNotFile
\* instead of returning a stream; in the STREAM branch nothing of the response
\* is written while createReadStream is pending, a request holds a stream only
\* if createReadStream succeeded, and a failure before the stream leaves the
\* mapped outcome and nothing else on the response.
C12_NothingBeforeStream ==
    \A i \in DOMAIN reqs :
        LET r == reqs[i]
            opened == createReadStream(backend, localFs, bucket, r.project, r.requestedPath)
        IN  /\ r.pc \in {"resolver", "hosts", "open"} => Untouched(r)
            /\ Streamed(r) =>
                  /\ r.error # "" => MappedOutcome(r) /\ r.stream.at = <<>>
                  /\ (opened.kind # "ok" /\ r.pc # "open")
                        => r.error \in {opened.kind, "Error"}
                  /\ (r.stream.at # <<>> \/ r.pc \in {"pipe", "piping", "broken"})
                        => opened.kind = "ok" /\ r.stream.at = opened.value
                  /\ (r.headersSent /\ r.error = "") => r.stream.at # <<>>

\* two requests of the STREAM branch: one failed before the stream and got
\* its mapped answer, one is being streamed
C12_Witness ==
    \E i, j \in DOMAIN reqs :
        /\ Streamed(reqs[i]) /\ reqs[i].error = "AccessDenied" /\ reqs[i].status = 403
        /\ Streamed(reqs[j]) /\ reqs[j].pc = "piping" /\ reqs[j].headersSent

\* the awaits and stream events a request can be suspended at, each with a
\* step that settles it: the two queries of the resolver, createReadStream,
\* the first and the last event of the stream, readFile of the page and of
\* the layout
PendingPcs == {"resolver", "hosts", "open", "pipe", "piping", "read", "layout"}

\* C13: every request that enters the pipeline reaches a terminal outcome
\* (the response is completed or control is passed on), also when the read
\* stream fails after the headers or some bytes were sent: a request is never
\* left where its outcome is not terminal and nothing is pending that would
\* complete it.
C13_NoRequestLeftOpen ==
    \A i \in DOMAIN reqs : reqs[i].pc = "done" \/ reqs[i].pc \in PendingPcs

\* ------------------------------------------------------------------------
\* Resolution of the host
\* ------------------------------------------------------------------------
\* the registry lists the host for the project
Owns(p, hostname) == \E k \in DOMAIN p.hosts : p.hosts[k] = hostname

\* what the resolver does with request i in a step that completes its host
\* query, and in the step that attaches the project
C14_ResolveStep(i) ==
    LET r == reqs[i]
        owners == {p \in registry : Owns(p, r.host)}
    IN  /\ (r.pc = "resolver" /\ reqs'[i].pc # "resolver") =>
              IF owners = {}
              THEN reqs'[i] = [r EXCEPT !.pc = "done", !.resolverNext = 1,
                                        !.status = 404, !.body = ProjectNotFoundBody,
                                        !.contentType = "application/json",
                                        !.headersSent = TRUE]
              ELSE /\ \A p \in owners : reqs'[i].projectId = p.id
                   /\ reqs'[i].project = NoProject /\ reqs'[i].resolverNext = 0
        /\ (r.pc = "hosts" /\ reqs'[i].pc # "hosts") =>
              \E p \in registry :
                  /\ p.id = r.projectId
                  /\ reqs'[i].project.id = p.id
                  /\ reqs'[i].project.name = p.name
                  /\ reqs'[i].project.color = p.color
                  /\ reqs'[i].project.folder = p.folder
                  /\ \A h \in ReqHosts : Owns(reqs'[i].project, h) <=> Owns(p, h)
                  /\ reqs'[i].resolverNext = 1 /\ reqs'[i].error = ""

\* C14: a host bound to no project is a miss without error: nothing is
\* attached, control is passed on exactly once, and fileLoader answers 404
\* without a storage operation.  A host bound to a project resolves to the
\* project that owns it in the registry as it is when the request is
\* resolved, whatever it was before.
C14_FreshLookup == [][\A i \in DOMAIN reqs : C14_ResolveStep(i)]_vars

\* a host was transferred, a request for it resolved to the new owner, and a
\* request for an unbound host was answered 404
C14_Witness ==
    /\ registry # SeedProjects
    /\ \E i \in DOMAIN reqs :
           /\ reqs[i].project # NoProject
           /\ ~Owns(CHOOSE p \in SeedProjects : p.id = reqs[i].project.id, reqs[i].host)
           /\ Owns(reqs[i].project, reqs[i].host)
    /\ \E j \in DOMAIN reqs :
           /\ reqs[j].host = OtherHost /\ reqs[j].status = 404
           /\ reqs[j].resolverNext = 1 /\ reqs[j].requestedPath = <<>>

\* ------------------------------------------------------------------------
\* The failure table of the pipeline
\* ------------------------------------------------------------------------
\* the request was routed to the RENDER branch
Rendered(r) ==
    r.project # NoProject /\ r.pc \notin {"resolver", "hosts"}
    /\ toLowerCase(extname(r.requestedPath)) = DotHtml

\* how the storage answers the call that opens or reads the requested file
Requested(r) ==
    IF Streamed(r)
    THEN createReadStream(backend, localFs, bucket, r.project, r.requestedPath).kind
    ELSE readFile(backend, localFs, bucket, r.project, r.requestedPath).kind

StoredBytes == Utf8Encode(last.content)
StoredText == Utf8Decode(StoredBytes)

\* the project has a layout; the text read from it
HasLayout == twin.op = "writeFile"
LayoutText == Utf8Decode(Utf8Encode(twin.content))

\* the request was answered 200 with a complete body
Succeeded(r) == r.pc = "done" /\ r.status = 200 /\ r.error = ""

\* the relative path of a request that entered a branch: "/" is index.html,
\* and the leading slash is stripped
ComputedPath(r) ==
    (Streamed(r) \/ Rendered(r))
    => r.requestedPath = (IF r.path = <<"/">> THEN IndexHtml ELSE Tail(r.path))

\* what the two branches answer: with isHtml the extensions that are taken
\* to be ".html"
BranchOutcome(r, isHtml) ==
    IF isHtml
    THEN /\ r.stream.at = <<>>
         /\ r.contentType = "text/html"
         /\ r.fileContent = StoredText
         /\ r.body = IF HasLayout /\ r.layoutError = ""
                     THEN Utf8Encode(render(LayoutText, StoredText, r.project))
                     ELSE Utf8Encode(StoredText)
    ELSE /\ r.stream.at # <<>>
         /\ r.fileContent = <<>> /\ r.layoutError = ""
         /\ r.body = StoredBytes
         /\ r.contentType = (IF mimeLookup(r.requestedPath) = ""
                             THEN "application/octet-stream"
                             ELSE mimeLookup(r.requestedPath))

\* C16 as stated: the branch is decided by the extension of the computed
\* relative path ("/" is index.html, the leading slash is stripped): a path
\* whose extension is ".html" is read in full, rendered and answered as
\* text/html; every other path is streamed with its bytes unmodified and never
\* rendered, also when the project has a layout.
C16_BranchByExtension ==
    \A i \in DOMAIN reqs :
        /\ ComputedPath(reqs[i])
        /\ Succeeded(reqs[i])
           => BranchOutcome(reqs[i], extname(reqs[i].requestedPath) = DotHtml)

\* C16 with the extension compared without regard to case: ".HTML" is
\* rendered like ".html"; every other path is streamed with its bytes
\* unmodified; "/" is answered like "/index.html".
C16_BranchByExtensionAnyCase ==
    \A i \in DOMAIN reqs :
        /\ ComputedPath(reqs[i])
        /\ Succeeded(reqs[i])
           => BranchOutcome(reqs[i], toLowerCase(extname(reqs[i].requestedPath)) = DotHtml)

\* a page stored with an upper-case extension was answered rendered in the
\* layout
C16_Witness ==
    \E i \in DOMAIN reqs :
        /\ reqs[i].requestedPath = UpperXHtml /\ Succeeded(reqs[i])
        /\ reqs[i].contentType = "text/html"
        /\ HasLayout /\ reqs[i].layoutError = ""
        /\ reqs[i].body # StoredBytes

\* ------------------------------------------------------------------------
\* LayoutRenderer
\* ------------------------------------------------------------------------
\* C17: when the project has no _layout.html, a page that was read is answered
\* 200 as text/html with a body equal to the stored page content, whatever
\* the content is, placeholder text included.
C17_NoLayoutIsIdentity ==
    \A i \in DOMAIN reqs :
        LET r == reqs[i]
        IN  (Rendered(r) /\ ~HasLayout /\ r.pc = "done" /\ r.error = "")
            => /\ r.status = 200 /\ r.contentType = "text/html"
               /\ r.body = StoredBytes
               /\ r.loaderNext = 0

\* a page that holds placeholder text was answered as it is stored, the
\* layout being absent
C17_Witness ==
    \E i \in DOMAIN reqs :
        /\ Rendered(reqs[i]) /\ ~HasLayout /\ Succeeded(reqs[i])
        /\ reqs[i].layoutError = "FileNotFound"
        /\ last.content = <<"{", "{", "n", "a", "m", "e", "}", "}">>
        /\ reqs[i].body = last.content

\* the layout up to its first {{content}} and from there on
ContentAt(layout) ==
    LET hits == {k \in 1..Len(layout) :
                    StartsWith(SubSeq(layout, k, Len(layout)), ContentPlaceholder)}
    IN  IF hits = {} THEN Len(layout) + 1 ELSE CHOOSE k \in hits : \A j \in hits : k <= j
LayoutBefore(layout) == SubSeq(layout, 1, ContentAt(layout) - 1)
LayoutAfter(layout) ==
    SubSeq(layout, ContentAt(layout) + Len(ContentPlaceholder), Len(layout))

\* the text holds no placeholder; no replacement pattern; none of the
\* identifiers every object inherits
NoPlaceholder(s) == ~Includes(s, <<"{", "{">>)
NoPattern(s) == ~Includes(s, <<"$">>)
NoInherited(s) ==
    \A v \in InheritedFunctions \cup {ProtoProperty} :
        ~Includes(s, <<"{", "{">> \o v \o <<"}", "}">>)

\* the value of an identifier: that of the Project attribute of this name,
\* strings verbatim and the others JSON-encoded, nothing for any other name
AttributeValue(project, identifier) ==
    CASE identifier = <<"i", "d">> -> jsonNumber(project.id)
      [] identifier = <<"n", "a", "m", "e">> -> project.name
      [] identifier = <<"c", "o", "l", "o", "r">> -> project.color
      [] identifier = <<"f", "o", "l", "d", "e", "r">> -> project.folder
      [] identifier = <<"h", "o", "s", "t", "s">> -> <<"[">> \o jsonStrings(project.hosts) \o <<"]">>
      [] OTHER -> <<>>

\* the text with every {{identifier}} replaced by its value, in one pass:
\* a value is not scanned
RECURSIVE Substituted(_, _)
Substituted(s, project) ==
    LET n == wordRun(s, 3)
    IN  IF Len(s) < 5 THEN s
        ELSE IF SubSeq(s, 1, 2) = <<"{", "{">> /\ n >= 1 /\ Len(s) >= n + 4
                /\ SubSeq(s, n + 3, n + 4) = <<"}", "}">>
        THEN AttributeValue(project, SubSeq(s, 3, n + 2))
             \o Substituted(SubSeq(s, n + 5, Len(s)), project)
        ELSE <<s[1]>> \o Substituted(Tail(s), project)

\* the page was read and sent inside the layout
InLayout(r) == Rendered(r) /\ Succeeded(r) /\ HasLayout /\ r.layoutError = ""

\* C18: composition puts the page content in the place of the first
\* {{content}} of the layout, verbatim, whatever characters it holds, and
\* keeps the layout text before and after it in place.  Stated for layouts
\* and pages without any other placeholder, where the composed text is the
\* body.
C18_ContentVerbatim ==
    \A i \in DOMAIN reqs :
        (/\ InLayout(reqs[i]) /\ NoPlaceholder(StoredText)
         /\ NoPlaceholder(LayoutBefore(LayoutText)) /\ NoPlaceholder(LayoutAfter(LayoutText)))
        => reqs[i].body = Utf8Encode(LayoutBefore(LayoutText) \o StoredText
                                        \o LayoutAfter(LayoutText))

\* C19: after composition every {{identifier}} of the layout is replaced, by
\* the value of the Project attribute of exactly this name (strings verbatim,
\* others JSON-encoded) and by nothing for any other identifier.  Stated for
\* pages that hold neither a placeholder nor a replacement pattern.
C19_AttributesOrEmpty ==
    \A i \in DOMAIN reqs :
        (InLayout(reqs[i]) /\ NoPlaceholder(StoredText) /\ NoPattern(StoredText))
        => reqs[i].body = Utf8Encode(Substituted(LayoutBefore(LayoutText), reqs[i].project)
                                        \o StoredText
                                        \o Substituted(LayoutAfter(LayoutText), reqs[i].project))

\* the case the claims of the scan are stated for: no replacement pattern in
\* the page, no inherited identifier in the layout or the page
ScanCase(r) ==
    InLayout(r) /\ NoPattern(StoredText) /\ NoInherited(StoredText) /\ NoInherited(LayoutText)

\* C20 as stated: a substituted value is never scanned, neither the page
\* content put in the place of {{content}} nor an attribute value:
\* placeholder text inside them is in the body unchanged.
C20_NoValueScanned ==
    \A i \in DOMAIN reqs :
        ScanCase(reqs[i])
        => reqs[i].body = Utf8Encode(Substituted(LayoutBefore(LayoutText), reqs[i].project)
                                        \o StoredText
                                        \o Substituted(LayoutAfter(LayoutText), reqs[i].project))

\* C20, for the one pass the code makes over the composed body: placeholder
\* text of the page is replaced like that of the layout, and an attribute
\* value that was substituted is not scanned.
C20_OnePassOverComposedBody ==
    \A i \in DOMAIN reqs :
        ScanCase(reqs[i])
        => reqs[i].body = Utf8Encode(Substituted(LayoutBefore(LayoutText) \o StoredText
                                                    \o LayoutAfter(LayoutText),
                                                 reqs[i].project))

\* a page holding {{name}} was sent inside a layout for a project whose name
\* reads {{id}}: the body holds the name, unscanned
C20_Witness ==
    \E i \in DOMAIN reqs :
        /\ ScanCase(reqs[i])
        /\ StoredText = <<"{", "{", "n", "a", "m", "e", "}", "}">>
        /\ reqs[i].project.name = <<"{", "{", "i", "d", "}", "}">>
        /\ Includes(reqs[i].body, <<"{", "{", "i", "d", "}", "}">>)
        /\ ~Includes(reqs[i].body, <<"{", "{", "n", "a", "m", "e", "}", "}">>)
\* ------------------------------------------------------------------------
\* A layout that cannot be read
\* ------------------------------------------------------------------------
\* how the storage answers the read of _layout.html
LayoutRead(r) == readFile(backend, localFs, bucket, r.project, LayoutHtml).kind

\* C21: once the page has been read, a failure to load _layout.html never
\* fails the request, whatever the failure is (the layout path is a folder,
\* the transport fails): the response is 200 text/html with the page content
\* as it was read, control is not passed on, and the failure is not put
\* through the error table of the pipeline.
C21_LayoutFailureServesPage ==
    \A i \in DOMAIN reqs :
        LET r == reqs[i]
        IN  (Rendered(r) /\ r.pc = "done" /\ r.fileContent # <<>>)
            => /\ r.status = 200 /\ r.contentType = "text/html"
               /\ r.error = "" /\ r.loaderNext = 0 /\ r.headersSent
               /\ (r.layoutError # "" \/ LayoutRead(r) # "ok")
                     => r.body = Utf8Encode(r.fileContent)
               /\ LayoutRead(r) \notin {"ok", "FileNotFound"}
                     => r.layoutError \in {LayoutRead(r), "Error"}

\* a page was answered as it is stored although the layout path is a folder
C21_Witness ==
    \E i \in DOMAIN reqs :
        /\ Rendered(reqs[i]) /\ reqs[i].pc = "done"
        /\ LayoutRead(reqs[i]) = "PathNotFile" /\ reqs[i].layoutError = "PathNotFile"
        /\ reqs[i].status = 200 /\ reqs[i].body = StoredBytes

\* ------------------------------------------------------------------------
\* The registry: the tables projects and project_hosts behind projectService
\* ------------------------------------------------------------------------
\* the characters [a-z0-9] of the folder-name pattern
AlphaNum ==
    {"a", "b", "c", "d", "e", "f", "g", "h", "i", "j", "k", "l", "m", "n", "o", "p",
     "q", "r", "s", "t", "u", "v", "w", "x", "y", "z",
     "0", "1", "2", "3", "4", "5", "6", "7", "8", "9"}

\* a replacement of every single other character by a hyphen
RECURSIVE hyphenateEach(_)
hyphenateEach(s) ==
    IF s = <<>> THEN <<>>
    ELSE (IF s[1] \in AlphaNum THEN <<s[1]>> ELSE <<"-">>) \o hyphenateEach(Tail(s))

\* .replace(/[^a-z0-9]+/g, "-"): every run of other characters becomes one
\* hyphen
RECURSIVE hyphenate(_)
hyphenate(s) ==
    IF s = <<>> THEN <<>>
    ELSE IF s[1] \in AlphaNum THEN <<s[1]>> \o hyphenate(Tail(s))
    ELSE IF Len(s) > 1 /\ s[2] \notin AlphaNum THEN hyphenate(Tail(s))
    ELSE <<"-">> \o hyphenate(Tail(s))

\* .replace(/^-+|-+$/g, ""): the hyphens at both ends are removed
RECURSIVE trimHyphens(_)
trimHyphens(s) ==
    IF s = <<>> THEN <<>>
    ELSE IF s[1] = "-" THEN trimHyphens(Tail(s))
    ELSE IF s[Len(s)] = "-" THEN trimHyphens(SubSeq(s, 1, Len(s) - 1))
    ELSE s

\* baseFolder of generateUniqueFolderName
baseFolder(name) == trimHyphens(hyphenate(toLowerCase(name)))

\* the names generateUniqueFolderName probes: baseFolder, then
\* `${baseFolder}-${counter}` for counter = 1, 2, ...
folderName(name, counter) ==
    IF counter = 0 THEN baseFolder(name)
    ELSE baseFolder(name) \o <<"-">> \o jsonNumber(counter)

\* SELECT COUNT(*) FROM projects WHERE folder = $1
folderExists(d, folder) == \E row \in d.projects : row.folder = folder

\* SELECT COUNT(*) FROM project_hosts WHERE host = $1
hostExists(d, host) == \E row \in d.project_hosts : row.host = host

\* rowsToProject over the rows of one project, the host rows in the order
\* of the hosts the model knows
NewHost == <<"n", "e", "w", ".", "t", "e", "s", "t", ".", "x">>

KnownHosts == <<FooHost, FooBarHost, OtherHost, NewHost>>

rowsToProject(d, row) ==
    [id |-> row.id, name |-> row.name, color |-> row.color, folder |-> row.folder,
     hosts |-> SelectSeq(KnownHosts, LAMBDA h :
                  [project_id |-> row.id, host |-> h] \in d.project_hosts)]

\* getAllProjects
getAllProjects(d) == {rowsToProject(d, row) : row \in d.projects}

\* findProjectById; NoProject stands for null
findProjectById(d, id) ==
    IF \E row \in d.projects : row.id = id
    THEN rowsToProject(d, CHOOSE row \in d.projects : row.id = id)
    ELSE NoProject

\* ------------------------------------------------------------------------
\* Transactions.  A transaction (BEGIN ... COMMIT on one client) collects
\* its row changes; the tables show them to the other connections at COMMIT
\* and never after ROLLBACK.  A row a transaction wrote, and a unique key it
\* inserted or deleted, is locked until the transaction ends: a statement of
\* another connection that needs it waits.
\* ------------------------------------------------------------------------
NoChanges ==
    [insProjects |-> {}, updProjects |-> {}, delProjects |-> {},
     insHosts |-> {}, delHosts |-> {}]

\* the tables as the statements of a transaction see them
View(d, tx) ==
    [projects |-> ({row \in d.projects :
                        /\ row \notin tx.delProjects
                        /\ ~\E u \in tx.updProjects : u.id = row.id}
                   \cup {u \in tx.updProjects : u \notin tx.delProjects})
                  \cup tx.insProjects,
     project_hosts |-> (d.project_hosts \ tx.delHosts) \cup tx.insHosts,
     seq |-> d.seq]

\* the host rows of a project (ON DELETE CASCADE reaches the same rows)
hostRowsOf(d, id) == {row \in d.project_hosts : row.project_id = id}

\* what a transaction holds locked: unique keys of both tables, project rows
\* it wrote, project rows its host rows refer to
FoldersHeld(tx) == {row.folder : row \in tx.insProjects \cup tx.delProjects}
HostsHeld(tx) == {row.host : row \in tx.insHosts \cup tx.delHosts}
ProjectsDeleted(tx) == {row.id : row \in tx.delProjects}
ProjectsWritten(tx) == {row.id : row \in tx.updProjects \cup tx.delProjects}
ProjectsReferred(tx) == {row.project_id : row \in tx.insHosts}

\* a registry operation under way: the request of a route with the service
\* call it makes.  name, color and hosts are <<>> where the request leaves
\* them out; pc is the statement the operation is about to issue.
NewOp(kind, id, name, color, hosts, host) ==
    [kind |-> kind, pc |-> IF kind = "deleteProject" THEN "select" ELSE "check",
     id |-> id, name |-> name, color |-> color, hosts |-> hosts, host |-> host,
     folder |-> <<>>, counter |-> 0, k |-> 1, row |-> NoProject,
     tx |-> NoChanges, committed |-> FALSE, error |-> "", status |-> 0,
     before |-> NoTables]

\* the statement op is about to issue needs a lock the transaction tx of
\* another connection holds
Conflicts(d, op, tx) ==
    CASE op.pc = "insertProject" -> op.folder \in FoldersHeld(tx)
      [] op.pc = "insertHost" ->
            /\ op.k <= Len(op.hosts)
            /\ op.hosts[op.k] \in HostsHeld(tx) \/ op.id \in ProjectsDeleted(tx)
      [] op.pc = "updateRow" -> op.id \in ProjectsWritten(tx)
      [] op.pc = "deleteHosts" ->
            \E row \in hostRowsOf(d, op.id) : row.host \in HostsHeld(tx)
      [] op.pc = "deleteRow" ->
            \/ op.id \in ProjectsWritten(tx) \cup ProjectsReferred(tx)
            \/ \E row \in hostRowsOf(d, op.id) : row.host \in HostsHeld(tx)
      [] op.pc = "updateHost" ->
            op.host \in HostsHeld(tx) \/ op.id \in ProjectsDeleted(tx)
      [] OTHER -> FALSE

\* the route answers; nothing of the operation is left in flight
Answer(op, status) == [op EXCEPT !.pc = "done", !.status = status]

\* a statement of the transaction failed: the catch block is entered
Throw(op, error) == [op EXCEPT !.pc = "rollback", !.error = error]

\* an INSERT that takes every folder
insertProjectUnchecked(d, op) ==
    LET id == d.seq + 1
        row == [id |-> id, name |-> op.name, color |-> op.color, folder |-> op.folder]
    IN  [d |-> [d EXCEPT !.seq = id],
         op |-> [op EXCEPT !.id = id, !.tx.insProjects = @ \cup {row},
                           !.pc = "insertHost", !.k = 1]]

\* INSERT INTO projects ... RETURNING id: the id is drawn from the sequence
\* whether the row is accepted or not; folder is UNIQUE
insertProject(d, op) ==
    LET id == d.seq + 1
        drawn == [d EXCEPT !.seq = id]
        row == [id |-> id, name |-> op.name, color |-> op.color, folder |-> op.folder]
    IN  IF folderExists(View(d, op.tx), op.folder)
        THEN [d |-> drawn, op |-> Throw(op, "unique_violation")]
        ELSE [d |-> drawn,
              op |-> [op EXCEPT !.id = id, !.tx.insProjects = @ \cup {row},
                                !.pc = "insertHost", !.k = 1]]

\* INSERT INTO project_hosts (project_id, host): host is UNIQUE, project_id
\* REFERENCES projects(id); after the last host the loop is left
insertHost(d, op) ==
    LET seen == View(d, op.tx)
        row == [project_id |-> op.id, host |-> op.hosts[op.k]]
    IN  IF op.k > Len(op.hosts) THEN [d |-> d, op |-> [op EXCEPT !.pc = "commit"]]
        ELSE IF hostExists(seen, row.host)
        THEN [d |-> d, op |-> Throw(op, "unique_violation")]
        ELSE IF ~\E p \in seen.projects : p.id = op.id
        THEN [d |-> d, op |-> Throw(op, "foreign_key_violation")]
        ELSE [d |-> d, op |-> [op EXCEPT !.tx.insHosts = @ \cup {row}, !.k = @ + 1]]

\* DELETE FROM project_hosts WHERE project_id = $1
deleteHosts(d, op, next) ==
    [d |-> d,
     op |-> [op EXCEPT !.tx.delHosts = @ \cup hostRowsOf(d, op.id),
                       !.tx.insHosts = {row \in @ : row.project_id # op.id},
                       !.pc = next, !.k = 1]]

\* UPDATE projects SET name = $1, color = $2 WHERE id = $3, with the values
\* left out taken from the row read before the transaction
updateRow(d, op) ==
    LET name == IF op.name # <<>> THEN op.name ELSE op.row.name
        color == IF op.color # <<>> THEN op.color ELSE op.row.color
        rows == {row \in d.projects : row.id = op.id}
        next == IF op.hosts # <<>> THEN "deleteHosts" ELSE "commit"
    IN  [d |-> d,
         op |-> IF op.name = <<>> /\ op.color = <<>> THEN [op EXCEPT !.pc = next]
                ELSE [op EXCEPT !.tx.updProjects =
                                    @ \cup {[row EXCEPT !.name = name, !.color = color] : row \in rows},
                                !.pc = next]]

\* DELETE FROM projects WHERE id = $1, the host rows of the project going
\* with it
deleteRow(d, op) ==
    [d |-> d,
     op |-> [op EXCEPT !.tx.delProjects = @ \cup {row \in d.projects : row.id = op.id},
                       !.tx.delHosts = @ \cup hostRowsOf(d, op.id),
                       !.pc = "commit"]]

\* COMMIT
commit(d, op, next) ==
    [d |-> View(d, op.tx),
     op |-> [op EXCEPT !.tx = NoChanges, !.committed = TRUE, !.pc = next]]

\* a catch block that keeps what the transaction did before it failed
rollbackKeeping(d, op) ==
    [d |-> View(d, op.tx), op |-> Answer([op EXCEPT !.tx = NoChanges], 500)]

\* ROLLBACK in the catch block, the error rethrown to the route
rollback(d, op) ==
    [d |-> d, op |-> Answer([op EXCEPT !.tx = NoChanges], 500)]

\* the project is fetched to be returned: rowsToProject of a row that is not
\* there throws
fetch(d, op, status) ==
    IF findProjectById(d, op.id) = NoProject
    THEN [d |-> d, op |-> Throw(op, "TypeError")]
    ELSE [d |-> d, op |-> Answer([op EXCEPT !.row = findProjectById(d, op.id)], status)]

\* POST /projects with createProject, one statement at a time
createProjectStep(d, op) ==
    CASE op.pc = "check" ->
            [d |-> d,
             op |-> IF Len(op.hosts) = 0 \/ Len(op.name) = 0 THEN Answer(op, 400)
                    ELSE IF \E k \in DOMAIN op.hosts : hostExists(d, op.hosts[k])
                    THEN Answer(op, 409)
                    ELSE [op EXCEPT !.pc = "folder", !.counter = 0]]
      [] op.pc = "folder" ->
            [d |-> d,
             op |-> IF folderExists(d, folderName(op.name, op.counter))
                    THEN [op EXCEPT !.counter = @ + 1]
                    ELSE [op EXCEPT !.folder = folderName(op.name, op.counter),
                                    !.pc = "insertProject"]]
      [] op.pc = "insertProject" -> insertProject(d, op)
      [] op.pc = "insertHost" -> insertHost(d, op)
      [] op.pc = "commit" -> commit(d, op, "fetch")
      [] op.pc = "fetch" -> fetch(d, op, 201)
      [] OTHER -> rollback(d, op)

\* PUT /projects/:id with updateProject
updateProjectStep(d, op) ==
    CASE op.pc = "check" ->
            LET currentProject == findProjectById(d, op.id)
                inCurrent(h) == \E k \in DOMAIN currentProject.hosts : currentProject.hosts[k] = h
            IN  [d |-> d,
                 op |-> IF op.name = <<>> /\ op.color = <<>> /\ op.hosts = <<>>
                        THEN Answer(op, 400)
                        ELSE IF op.hosts # <<>> /\ currentProject = NoProject
                        THEN Answer(op, 404)
                        ELSE IF \E k \in DOMAIN op.hosts :
                                    hostExists(d, op.hosts[k]) /\ ~inCurrent(op.hosts[k])
                        THEN Answer(op, 409)
                        ELSE [op EXCEPT !.pc = "select"]]
      [] op.pc = "select" ->
            [d |-> d,
             op |-> IF findProjectById(d, op.id) = NoProject THEN Answer(op, 404)
                    ELSE [op EXCEPT !.row = findProjectById(d, op.id), !.pc = "updateRow"]]
      [] op.pc = "updateRow" -> updateRow(d, op)
      [] op.pc = "deleteHosts" -> deleteHosts(d, op, "insertHost")
      [] op.pc = "insertHost" -> insertHost(d, op)
      [] op.pc = "commit" -> commit(d, op, "fetch")
      [] op.pc = "fetch" -> fetch(d, op, 200)
      [] OTHER -> rollback(d, op)

\* DELETE /projects/:id with deleteProject
deleteProjectStep(d, op) ==
    CASE op.pc = "select" ->
            [d |-> d,
             op |-> IF findProjectById(d, op.id) = NoProject THEN Answer(op, 404)
                    ELSE [op EXCEPT !.pc = "deleteHosts"]]
      [] op.pc = "deleteHosts" -> deleteHosts(d, op, "deleteRow")
      [] op.pc = "deleteRow" -> deleteRow(d, op)
      [] op.pc = "commit" ->
            [d |-> commit(d, op, "done").d, op |-> Answer(commit(d, op, "done").op, 200)]
      [] OTHER -> rollback(d, op)

\* a transfer that moves every host of the project that owns the host
transferHostStepAll(d, op) ==
    CASE op.pc = "check" ->
            [d |-> d, op |-> IF ~hostExists(d, op.host) THEN Answer(op, 404)
                             ELSE [op EXCEPT !.pc = "selectHost"]]
      [] op.pc = "selectHost" ->
            [d |-> d, op |-> IF ~hostExists(d, op.host) THEN Answer(op, 404)
                             ELSE [op EXCEPT !.pc = "selectTarget"]]
      [] op.pc = "selectTarget" ->
            [d |-> d, op |-> IF findProjectById(d, op.id) = NoProject THEN Answer(op, 404)
                             ELSE [op EXCEPT !.pc = "updateHost"]]
      [] OTHER ->
            LET moved == {row \in d.project_hosts :
                             \E g \in d.project_hosts :
                                 g.host = op.host /\ g.project_id = row.project_id}
            IN  IF moved = {} THEN [d |-> d, op |-> Answer(op, 200)]
                ELSE IF findProjectById(d, op.id) = NoProject
                THEN [d |-> d, op |-> Answer([op EXCEPT !.error = "foreign_key_violation"], 500)]
                ELSE [d |-> [d EXCEPT !.project_hosts =
                                (@ \ moved) \cup {[project_id |-> op.id, host |-> row.host] : row \in moved}],
                      op |-> Answer([op EXCEPT !.committed = TRUE], 200)]

\* POST /projects/transfer-host with transferHost; the UPDATE of the host
\* row is a transaction of its own
transferHostStep(d, op) ==
    CASE op.pc = "check" ->
            [d |-> d, op |-> IF ~hostExists(d, op.host) THEN Answer(op, 404)
                             ELSE [op EXCEPT !.pc = "selectHost"]]
      [] op.pc = "selectHost" ->
            [d |-> d, op |-> IF ~hostExists(d, op.host) THEN Answer(op, 404)
                             ELSE [op EXCEPT !.pc = "selectTarget"]]
      [] op.pc = "selectTarget" ->
            [d |-> d, op |-> IF findProjectById(d, op.id) = NoProject THEN Answer(op, 404)
                             ELSE [op EXCEPT !.pc = "updateHost"]]
      [] OTHER ->
            LET moved == {row \in d.project_hosts : row.host = op.host}
            IN  IF moved = {} THEN [d |-> d, op |-> Answer(op, 200)]
                ELSE IF findProjectById(d, op.id) = NoProject
                THEN [d |-> d, op |-> Answer([op EXCEPT !.error = "foreign_key_violation"], 500)]
                ELSE [d |-> [d EXCEPT !.project_hosts =
                                (@ \ moved) \cup {[project_id |-> op.id, host |-> op.host]}],
                      op |-> Answer([op EXCEPT !.committed = TRUE], 200)]

\* the next statement of an operation
opStep(d, op) ==
    CASE op.kind = "createProject" -> createProjectStep(d, op)
      [] op.kind = "updateProject" -> updateProjectStep(d, op)
      [] op.kind = "deleteProject" -> deleteProjectStep(d, op)
      [] OTHER -> transferHostStep(d, op)

\* an operation run from its next statement to its answer with no other
\* connection at work
RECURSIVE runOp(_, _)
runOp(d, op) ==
    IF op.pc = "done" THEN [d |-> d, op |-> op]
    ELSE runOp(opStep(d, op).d, opStep(d, op).op)

\* ------------------------------------------------------------------------
\* Registry operations of concurrent requests
\* ------------------------------------------------------------------------
\* the number of registry operations under way at once
MaxOps == 2

\* the tables of the two seeded projects
SeedTables ==
    [projects |-> {[id |-> p.id, name |-> p.name, color |-> p.color, folder |-> p.folder] :
                      p \in SeedProjects},
     project_hosts |-> {[project_id |-> p.id, host |-> p.hosts[k]] :
                           p \in SeedProjects, k \in {1}},
     seq |-> 2]

Green == <<"#", "0", "f", "0", "f", "0", "f">>

\* the requests: creations under a name whose folder is taken, with one or
\* the other free host, the same host twice, a bound host, and two free
\* hosts; updates of the name and of the hosts; deletions; transfers of a bound and of an unknown host to a
\* project that exists and to one that does not
RegistryOps ==
    {NewOp("createProject", 0, ProjectFoo.name, Green, hosts, <<>>) :
        hosts \in {<<OtherHost>>, <<NewHost>>, <<OtherHost, OtherHost>>, <<FooHost>>,
                   <<OtherHost, NewHost>>}}
    \cup {NewOp("updateProject", 1, u.name, <<>>, u.hosts, <<>>) :
        u \in {[name |-> <<"B", "a", "r">>, hosts |-> <<>>],
               [name |-> <<>>, hosts |-> <<OtherHost>>],
               [name |-> <<>>, hosts |-> <<FooHost, OtherHost>>]}}
    \cup {NewOp("updateProject", 2, <<>>, <<>>, <<NewHost, OtherHost>>, <<>>)}
    \cup {NewOp("deleteProject", id, <<>>, <<>>, <<>>, <<>>) : id \in {1, 2}}
    \cup {NewOp("transferHost", id, <<>>, <<>>, <<>>, host) :
        id \in {2, 3}, host \in {FooHost, OtherHost}}

\* which of two requests bears which number makes no difference
OpOrder(op) ==
    1000 * Len(op.kind) + 100 * op.id + 10 * Len(op.hosts) + Len(op.name)
        + Len(op.host) + (IF op.hosts # <<>> THEN Len(op.hosts[Len(op.hosts)]) ELSE 0)

InitRegistry ==
    /\ backend = "local"
    /\ registry = SeedProjects
    /\ localFs = InitFs
    /\ bucket = InitBucket
    /\ last = NoCall
    /\ reqs = <<>>
    /\ twin = NoCall
    /\ db = SeedTables
    /\ ops \in [1..MaxOps -> RegistryOps]
    /\ \A i, j \in 1..MaxOps : i < j => OpOrder(ops[i]) <= OpOrder(ops[j])

\* operation i waits for a lock operation j holds
Waits(i, j) == i # j /\ Conflicts(db, ops[i], ops[j].tx)

Waiting(i) == \E j \in DOMAIN ops : Waits(i, j)

\* the statement of operation i is answered by the database
Statement(i) ==
    /\ ops[i].pc # "done"
    /\ ~Waiting(i)
    /\ db' = opStep(db, ops[i]).d
    /\ ops' = [ops EXCEPT ![i] = opStep(db, ops[i]).op]
    /\ registry' = getAllProjects(db')
    /\ UNCHANGED <<backend, localFs, bucket, last, reqs, twin>>

\* two transactions wait for each other: the database ends the wait of one
\* of them with an error
Deadlock(i) ==
    /\ \E j \in DOMAIN ops : Waits(i, j) /\ Waits(j, i)
    /\ ops' = [ops EXCEPT ![i] = Throw(@, "deadlock_detected")]
    /\ UNCHANGED <<backend, registry, localFs, bucket, last, reqs, twin, db>>

NextRegistry == \E i \in DOMAIN ops : Statement(i) \/ Deadlock(i)

SpecRegistry == InitRegistry /\ [][NextRegistry]_vars

\* ------------------------------------------------------------------------
\* A history of registry operations made one after the other.  ops holds
\* the operation that has just been answered, with the tables as they were
\* before it.
\* ------------------------------------------------------------------------
\* the ids the history draws from the sequence
MaxProjects == 3

\* project names: plain; one with a run of other characters, whose base is
\* the first numbered candidate of the plain one; one without a letter or
\* digit of the pattern ("Eacute" stands for the one character U+00C9)
HistoryNames ==
    {ProjectFoo.name, <<"F", "o", "o", " ", "-", "1">>, <<"Eacute", "!">>}

\* the request is made and answered before the next one
Answered(op) ==
    /\ db' = runOp(db, [op EXCEPT !.before = db]).d
    /\ ops' = <<runOp(db, [op EXCEPT !.before = db]).op>>
    /\ registry' = getAllProjects(db')
    /\ UNCHANGED <<backend, localFs, bucket, last, reqs, twin>>

CreateProject ==
    /\ db.seq < MaxProjects
    /\ \E name \in HistoryNames,
          hosts \in {<<FooHost>>, <<FooBarHost>>, <<OtherHost, OtherHost>>} :
           Answered(NewOp("createProject", 0, name, Green, hosts, <<>>))

UpdateProject ==
    \E id \in 1..2,
       u \in {[name |-> <<"B", "a", "r">>, hosts |-> <<>>],
              [name |-> <<>>, hosts |-> <<OtherHost>>],
              [name |-> <<>>, hosts |-> <<FooHost, FooHost>>]} :
        Answered(NewOp("updateProject", id, u.name, <<>>, u.hosts, <<>>))

DeleteProject ==
    \E id \in 1..2 : Answered(NewOp("deleteProject", id, <<>>, <<>>, <<>>, <<>>))

TransferHostTo ==
    \E host \in {FooHost, NewHost}, targetProjectId \in 2..3 :
        Answered(NewOp("transferHost", targetProjectId, <<>>, <<>>, <<>>, host))

\* a file is written to a project of the registry through the storage
\* service
WriteProjectFile ==
    /\ \E project \in registry :
           LET w == IF backend = "local" THEN fsWriteFile(localFs, project, XCss, <<"a">>)
                    ELSE s3WriteFile(bucket, project, XCss, <<"a">>)
           IN  /\ last' = Call("writeFile", project, XCss, <<"a">>, w)
               /\ localFs' = IF backend = "local" THEN w.store ELSE localFs
               /\ bucket' = IF backend = "s3" THEN w.store ELSE bucket
    /\ ops' = <<>>
    /\ UNCHANGED <<backend, registry, reqs, twin, db>>

InitHistory ==
    /\ backend = "local"
    /\ registry = {}
    /\ localFs = InitFs
    /\ bucket = InitBucket
    /\ last = NoCall
    /\ reqs = <<>>
    /\ twin = NoCall
    /\ db = NoTables
    /\ ops = <<>>

NextHistory ==
    \/ CreateProject
    \/ UpdateProject
    \/ DeleteProject
    \/ TransferHostTo

SpecHistory == InitHistory /\ [][NextHistory]_vars

\* ------------------------------------------------------------------------
\* Projects created and deleted one after the other, with files written to
\* them in between, on either backend
\* ------------------------------------------------------------------------
InitNamespace ==
    /\ backend \in {"local", "s3"}
    /\ registry = {}
    /\ localFs = InitFs
    /\ bucket = InitBucket
    /\ last = NoCall
    /\ reqs = <<>>
    /\ twin = NoCall
    /\ db = NoTables
    /\ ops = <<>>

NextNamespace ==
    \/ CreateProject
    \/ DeleteProject
    \/ WriteProjectFile

SpecNamespace == InitNamespace /\ [][NextNamespace]_vars

\* ------------------------------------------------------------------------
\* Folder names
\* ------------------------------------------------------------------------
\* the operation that has just been answered is a creation that succeeded
Created(op) == op.kind = "createProject" /\ op.status = 201

\* the base names of the project names of the history, written out
ExpectedBase(name) ==
    CASE name = <<"F", "o", "o">> -> <<"f", "o", "o">>
      [] name = <<"F", "o", "o", " ", "-", "1">> -> <<"f", "o", "o", "-", "1">>
      [] OTHER -> <<>>

\* the folders taken before the operation
TakenBefore(op) == {row.folder : row \in op.before.projects}

\* C22: a creation gives the project the first name not taken among base,
\* base-1, base-2, ..., where base is the project name in lower case with
\* every run of characters other than a-z and 0-9 turned into one hyphen and
\* the hyphens at both ends removed; names taken by other projects are
\* skipped, whatever the project names they came from; and the search ends
\* after at most as many probes as there are folders taken.
C22_FirstFreeFolderName ==
    \A k \in DOMAIN ops :
        Created(ops[k]) =>
            LET op == ops[k]
                free == {n \in 0..MaxProjects : folderName(op.name, n) \notin TakenBefore(op)}
                first == CHOOSE n \in free : \A m \in free : n <= m
            IN  /\ baseFolder(op.name) = ExpectedBase(op.name)
                /\ folderName(op.name, 1) = ExpectedBase(op.name) \o <<"-", "1">>
                /\ folderName(op.name, 2) = ExpectedBase(op.name) \o <<"-", "2">>
                /\ free # {}
                /\ op.folder = folderName(op.name, first)
                /\ op.counter = first /\ first <= Cardinality(TakenBefore(op))
                /\ \E row \in db.projects : row.id = op.id /\ row.folder = op.folder

\* a project named Foo was given the folder foo-2: foo was taken, and foo-1
\* by a project whose own name has that base
C22_Witness ==
    \E k \in DOMAIN ops :
        /\ Created(ops[k]) /\ ops[k].name = <<"F", "o", "o">>
        /\ ops[k].folder = <<"f", "o", "o", "-", "2">>
        /\ \E row \in ops[k].before.projects :
               row.name = <<"F", "o", "o", " ", "-", "1">> /\ row.folder = <<"f", "o", "o", "-", "1">>

\* ------------------------------------------------------------------------
\* The registry under concurrent operations
\* ------------------------------------------------------------------------
\* no two projects have the same folder or id, no host has two rows, and
\* every host row belongs to a project
UniqueKeys(d) ==
    /\ \A p, q \in d.projects : (p.folder = q.folder \/ p.id = q.id) => p = q
    /\ \A g, h \in d.project_hosts : g.host = h.host => g = h
    /\ \A h \in d.project_hosts : \E p \in d.projects : p.id = h.project_id

\* the projects that exist before and after a step keep their folder
FoldersKept ==
    \A p \in db.projects, q \in db'.projects : p.id = q.id => p.folder = q.folder

\* C23: however the statements of concurrent createProject, updateProject,
\* transferHost and deleteProject calls interleave, no two projects share a
\* folder, no host is bound to more than one project, and no step changes
\* the folder of a project that exists.
C23_RegistryInvariants == []UniqueKeys(db) /\ [][FoldersKept]_vars

\* two creations under the same name and with different hosts both settled
\* on the folder foo-1 before either inserted its row: one was answered 201,
\* the other failed on the unique folder
C23_Witness ==
    \E i, j \in DOMAIN ops :
        /\ ops[i].kind = "createProject" /\ ops[j].kind = "createProject"
        /\ ops[i].hosts = <<OtherHost>> /\ ops[j].hosts = <<NewHost>>
        /\ ops[i].folder = <<"f", "o", "o", "-", "1">> /\ ops[j].folder = ops[i].folder
        /\ ops[i].status = 201 /\ ops[j].status = 500
        /\ ops[j].error = "unique_violation" /\ ops[j].k = 1
        /\ UniqueKeys(db)

\* ------------------------------------------------------------------------
\* Hosts of a project
\* ------------------------------------------------------------------------
\* C24: after any sequence of operations answered through the routes of the
\* projects router, every project of the registry owns at least one host.
C24_EveryProjectHasHost ==
    \A p \in db.projects : hostRowsOf(db, p.id) # {}

\* ------------------------------------------------------------------------
\* Transactions of createProject and updateProject
\* ------------------------------------------------------------------------
\* the rows of both tables
Rows(d) == <<d.projects, d.project_hosts>>

\* a statement of the transaction of the operation failed
FailedInTransaction(op) ==
    /\ op.kind \in {"createProject", "updateProject"}
    /\ op.error \in {"unique_violation", "foreign_key_violation", "deadlock_detected"}

\* what a step of operation i does to the tables: nothing unless it is the
\* COMMIT, which no operation reaches after a failed statement, and with
\* which the project shows all the hosts of the request
C26_Step(i) ==
    (ops'[i] # ops[i] /\ ops[i].kind \in {"createProject", "updateProject"})
    => /\ ops[i].pc # "commit" => Rows(db') = Rows(db)
       /\ FailedInTransaction(ops'[i]) => ~ops'[i].committed /\ ops'[i].pc # "commit"
       /\ ops[i].pc = "commit"
            => /\ ~FailedInTransaction(ops[i]) /\ ops'[i].committed
               /\ ops[i].hosts # <<>>
                    => {[project_id |-> ops[i].id, host |-> ops[i].hosts[k]] :
                           k \in DOMAIN ops[i].hosts} \subseteq hostRowsOf(db', ops[i].id)

\* C26: createProject and updateProject change the registry all at once or
\* not at all: when a statement of the transaction fails (the host is bound
\* already, the same host is listed twice), no row of either table is
\* added, changed or removed by the operation.
C26_AllOrNothing == [][\A i \in DOMAIN ops : C26_Step(i)]_vars

\* a creation that lists the same host twice was answered 500 after its
\* project row and the first host row had been inserted: neither is in the
\* tables
C26_Witness ==
    \E i \in DOMAIN ops :
        /\ ops[i].kind = "createProject" /\ ops[i].hosts = <<OtherHost, OtherHost>>
        /\ ops[i].error = "unique_violation" /\ ops[i].k = 2 /\ ops[i].id > 2
        /\ ops[i].status = 500
        /\ ~\E row \in db.projects : row.id = ops[i].id
        /\ ~\E j \in DOMAIN ops : j # i /\ ops[j].pc # "check"
        /\ Rows(db) = Rows(SeedTables)

\* ------------------------------------------------------------------------
\* Transfer of a host
\* ------------------------------------------------------------------------
\* the project a host resolves to in the tables d (0: none)
ResolvedTo(d, host) == findProjectByHost(getAllProjects(d), host).id

\* the host rows of hosts other than host
OtherHostRows(d, host) == {row \in d.project_hosts : row.host # host}

C28_FolderIsProperSubfolder ==
    \A project \in registry :
        /\ project.folder # <<>>
        /\ \A k \in DOMAIN project.folder : project.folder[k] \in AlphaNum \cup {"-"}
        /\ buildProjectPath(project, <<>>) # join(<<Cwd, Data>>)
        /\ buildS3Key(project, <<>>) # <<"/">>

\* C29: a project that has just been created (here: with a folder that is not
\* empty) starts with an empty namespace, whatever happened before, the
\* creation, use and deletion of a project of the same name included: its
\* listing is empty and no read of it succeeds.
C29_NewProjectStartsEmpty ==
    \A k \in DOMAIN ops :
        (Created(ops[k]) /\ ops[k].folder # <<>>)
        => /\ ListOf(backend, localFs, bucket, ops[k].row) = {}
           /\ ReadOf(backend, localFs, bucket, ops[k].row, XCss).kind # "ok"

\* ------------------------------------------------------------------------
\* listFiles of the object-store service, one page at a time
\* ------------------------------------------------------------------------
\* the keys a page holds at most (MaxKeys of ListObjectsV2)
PageSize == 2

ProjectFoo1 ==
    [id |-> 3, name |-> <<"F", "o", "o">>, color |-> Green, folder |-> Foo \o <<"-", "1">>,
     hosts |-> <<OtherHost>>]

\* the keys of the bucket in the order ListObjectsV2 returns keys (by their
\* bytes: "-" before "/" before the letters): a file of foo-1, the bare
\* prefix of foo, three files of foo, a file of foobar
ListKeys ==
    <<Foo \o <<"-", "1", "/">> \o XCss,
      Foo \o <<"/">>,
      Foo \o <<"/">> \o FooBar \o <<"/">> \o XCss,
      Foo \o <<"/">> \o IndexHtml,
      Foo \o <<"/">> \o XCss,
      FooBar \o <<"/">> \o XCss>>

\* the place of a key in that order (0 for no key)
KeyRank(key) ==
    IF \E n \in DOMAIN ListKeys : ListKeys[n] = key
    THEN CHOOSE n \in DOMAIN ListKeys : ListKeys[n] = key ELSE 0

\* a ListObjectsV2 whose continuation starts at the last key of the page
\* before
listObjectsV2Inclusive(s3, prefix, continuationToken, maxKeys) ==
    LET matching == SelectSeq(ListKeys, LAMBDA key :
                        /\ key \in DOMAIN s3 /\ StartsWith(key, prefix)
                        /\ KeyRank(key) >= KeyRank(continuationToken))
    IN  [Contents |-> SubSeq(matching, 1, IF Len(matching) > maxKeys THEN maxKeys ELSE Len(matching)),
         NextContinuationToken |-> IF Len(matching) > maxKeys THEN matching[maxKeys] ELSE <<>>]

\* ListObjectsV2Command: the keys with the prefix that follow the
\* continuation token, in key order, at most maxKeys of them, and a token
\* when there are more
listObjectsV2(s3, prefix, continuationToken, maxKeys) ==
    LET matching == SelectSeq(ListKeys, LAMBDA key :
                        /\ key \in DOMAIN s3 /\ StartsWith(key, prefix)
                        /\ KeyRank(key) > KeyRank(continuationToken))
    IN  [Contents |-> SubSeq(matching, 1, IF Len(matching) > maxKeys THEN maxKeys ELSE Len(matching)),
         NextContinuationToken |-> IF Len(matching) > maxKeys THEN matching[maxKeys] ELSE <<>>]

\* the loop body of listFiles: the relative paths of a page, the bare prefix
\* left out
RECURSIVE relativePaths(_, _)
relativePaths(contents, prefix) ==
    IF contents = <<>> THEN <<>>
    ELSE LET relativePath == SubSeq(contents[1], Len(prefix) + 1, Len(contents[1]))
         IN  (IF relativePath = <<>> THEN <<>> ELSE <<relativePath>>)
                 \o relativePaths(Tail(contents), prefix)

\* a listFiles call before its first request; pages collects the Contents
\* of the responses
NewListing(project) ==
    [project |-> project, pc |-> "list", prefix |-> buildS3Key(project, <<>>),
     files |-> <<>>, continuationToken |-> <<>>, pages |-> <<>>, requests |-> 0]

\* one turn of the do-while loop: a page is requested and its keys are
\* pushed; the loop goes on while the response bears a token
ListPage(i) ==
    /\ ops[i].pc = "list"
    /\ LET op == ops[i]
           response == listObjectsV2(bucket, op.prefix, op.continuationToken, PageSize)
       IN  ops' = [ops EXCEPT ![i] =
               [op EXCEPT !.files = @ \o relativePaths(response.Contents, op.prefix),
                          !.pages = @ \o response.Contents,
                          !.requests = @ + 1,
                          !.continuationToken = response.NextContinuationToken,
                          !.pc = IF response.NextContinuationToken # <<>> THEN "list" ELSE "done"]]
    /\ UNCHANGED <<backend, registry, localFs, bucket, last, reqs, twin, db>>

\* another request writes or deletes a file of a project while the listing
\* is under way (once)
ChangeDuringListing ==
    /\ last = NoCall
    /\ \E i \in DOMAIN ops : ops[i].pc = "list" /\ ops[i].requests > 0
    /\ \E project \in registry, filePath \in {XCss, IndexHtml} :
          /\ KeyRank(buildS3Key(project, filePath)) > 0
          /\ \/ /\ bucket' = s3WriteFile(bucket, project, filePath, <<"a">>).store
                /\ last' = Call("writeFile", project, filePath, <<"a">>, Res("ok", None))
             \/ /\ bucket' = s3DeleteFile(bucket, project, filePath).store
                /\ last' = Call("deleteFile", project, filePath, None,
                                Res(s3DeleteFile(bucket, project, filePath).kind, None))
    /\ UNCHANGED <<backend, registry, localFs, reqs, twin, db, ops>>

InitListing ==
    /\ backend = "s3"
    /\ registry = {ProjectFoo, ProjectFooBar, ProjectFoo1}
    /\ localFs = InitFs
    /\ \E keys \in SUBSET {ListKeys[n] : n \in DOMAIN ListKeys} :
           bucket = [key \in keys |-> <<"b">>]
    /\ last = NoCall
    /\ reqs = <<>>
    /\ twin = NoCall
    /\ db = NoTables
    /\ \E project \in registry : ops = <<NewListing(project)>>

NextListing == (\E i \in DOMAIN ops : ListPage(i)) \/ ChangeDuringListing

SpecListing == InitListing /\ [][NextListing]_vars

\* the keys of a sequence of keys
Range(s) == {s[n] : n \in DOMAIN s}

\* C25: listFiles asks for page after page until a response bears no token,
\* and it ends: it makes no more requests than there are keys, plus one.  Its
\* result holds every key of every page exactly once, with <folder>/ cut
\* off, leaves out the key that is the bare prefix, and holds no key of
\* another project (a listing of foo holds no key under foo-1/).  When the
\* bucket did not change meanwhile, these are all the files of the project.
C25_PagedListing ==
    \A i \in DOMAIN ops :
        LET op == ops[i]
            folderOf(key) == SubSeq(key, 1, Len(op.project.folder) + 1)
        IN  /\ op.requests <= Len(ListKeys) + 1
            /\ op.pc = "done" <=> (op.requests > 0 /\ op.continuationToken = <<>>)
            /\ op.files = relativePaths(op.pages, op.prefix)
            /\ \A m, n \in DOMAIN op.files : op.files[m] = op.files[n] => m = n
            /\ \A m, n \in DOMAIN op.pages : op.pages[m] = op.pages[n] => m = n
            /\ Range(op.files) = {SubSeq(key, Len(op.prefix) + 1, Len(key)) :
                                     key \in Range(op.pages) \ {op.prefix}}
            /\ \A key \in Range(op.pages) :
                   /\ folderOf(key) = op.project.folder \o <<"/">>
                   /\ \A other \in registry \ {op.project} :
                          ~StartsWith(key, other.folder \o <<"/">>)
            /\ (op.pc = "done" /\ last = NoCall)
                  => Range(op.files) = s3ListFiles(bucket, op.project).value

\* a listing of foo took two pages: it holds the three files of foo and
\* nothing else, while the bucket also holds the bare prefix foo/ and a file
\* of foo-1
C25_Witness ==
    \E i \in DOMAIN ops :
        /\ ops[i].pc = "done" /\ ops[i].project = ProjectFoo /\ ops[i].requests = 2
        /\ ops[i].files = <<FooBar \o <<"/">> \o XCss, IndexHtml, XCss>>
        /\ last = NoCall
        /\ DOMAIN bucket = Range(ListKeys)

\* ------------------------------------------------------------------------
\* Concurrent requests on the local backend.  readFile, deleteFile and
\* createReadStream await fs.stat inside a try/catch and then read, unlink or
\* open the file outside of it; other requests run between the two.  ops
\* holds the calls under way: a call of the service, or a GET served by
\* fileLoader (kind "fileLoader": readFile for a page, createReadStream for
\* any other file).
\* ------------------------------------------------------------------------
RacePaths == {IndexHtml, XCss, JoinSegs(<<DotDot, XCss>>)}

\* a call before its first step.  result is how the service call ended
\* ("" while it runs), stream what became of the stream it returned, status
\* and next what fileLoader answered
NewCall(kind, filePath) ==
    [kind |-> kind, project |-> ProjectFoo, filePath |-> filePath, pc |-> "stat",
     result |-> "", value |-> None, stream |-> "", status |-> 0, next |-> FALSE]

\* the service call fileLoader makes for its path
serviceOf(op) ==
    IF op.kind # "fileLoader" THEN op.kind
    ELSE IF toLowerCase(extname(op.filePath)) # DotHtml THEN "createReadStream"
    ELSE "readFile"

\* the outer catch of fileLoader: FileNotFound goes to the next handler
catchStatus(op, kind) ==
    IF op.kind # "fileLoader" THEN [op EXCEPT !.pc = "done", !.result = kind]
    ELSE IF kind = "FileNotFound" THEN [op EXCEPT !.pc = "done", !.result = kind, !.next = TRUE]
    ELSE [op EXCEPT !.pc = "done", !.result = kind,
                    !.status = IF kind = "AccessDenied" THEN 403
                               ELSE IF kind = "PathNotFile" THEN 400 ELSE 500]

\* the security check and the stat pre-check
StatStep(i) ==
    /\ ops[i].pc = "stat"
    /\ LET op == ops[i]
           fullPath == buildProjectPath(op.project, <<op.filePath>>)
           checked == statCheck(localFs, fullPath)
       IN  ops' = [ops EXCEPT ![i] =
               IF ~validatePathSecurity(fullPath, op.project) THEN catchStatus(op, "AccessDenied")
               ELSE IF checked # "ok" THEN catchStatus(op, checked)
               ELSE IF serviceOf(op) = "readFile" THEN [op EXCEPT !.pc = "read"]
               ELSE IF serviceOf(op) = "deleteFile" THEN [op EXCEPT !.pc = "unlink"]
               ELSE [op EXCEPT !.pc = "open", !.result = "ok"]]
    /\ UNCHANGED <<backend, registry, localFs, bucket, last, reqs, twin, db>>

\* fs.readFile(fullPath, "utf-8"), outside the try/catch of the pre-check
ReadStep(i) ==
    /\ ops[i].pc = "read"
    /\ LET op == ops[i]
           fullPath == buildProjectPath(op.project, <<op.filePath>>)
       IN  ops' = [ops EXCEPT ![i] =
               IF statSys(localFs, fullPath) # "file" THEN catchStatus(op, "Error")
               ELSE [op EXCEPT !.pc = IF op.kind = "fileLoader" THEN "layout" ELSE "done",
                               !.result = "ok",
                               !.value = Utf8Decode(localFs[Loc(fullPath)].data)]]
    /\ UNCHANGED <<backend, registry, localFs, bucket, last, reqs, twin, db>>

\* fs.unlink(fullPath), outside the try/catch of the pre-check
UnlinkStep(i) ==
    /\ ops[i].pc = "unlink"
    /\ LET op == ops[i]
           fullPath == buildProjectPath(op.project, <<op.filePath>>)
           unlinked == unlinkSys(localFs, fullPath)
       IN  /\ localFs' = unlinked.fs
           /\ ops' = [ops EXCEPT ![i] =
                  IF unlinked.err # "" THEN catchStatus(op, "Error")
                  ELSE [op EXCEPT !.pc = "done", !.result = "ok"]]
    /\ UNCHANGED <<backend, registry, bucket, last, reqs, twin, db>>

\* the stream returned by fsSync.createReadStream opens its file later; a
\* failure is an "error" event, which fileLoader answers with 500 as no
\* header has been sent
OpenStep(i) ==
    /\ ops[i].pc = "open"
    /\ LET op == ops[i]
           fullPath == buildProjectPath(op.project, <<op.filePath>>)
           opened == statSys(localFs, fullPath) = "file"
       IN  ops' = [ops EXCEPT ![i] =
               [op EXCEPT !.pc = "done",
                          !.stream = IF opened THEN "open" ELSE "error",
                          !.value = IF opened THEN localFs[Loc(fullPath)].data ELSE None,
                          !.status = IF op.kind # "fileLoader" THEN 0
                                     ELSE IF opened THEN 200 ELSE 500]]
    /\ UNCHANGED <<backend, registry, localFs, bucket, last, reqs, twin, db>>

\* the page has been read: the layout is read and the page is sent, inside
\* the layout or, when the layout cannot be read, as it is
LayoutStep(i) ==
    /\ ops[i].pc = "layout"
    /\ LET op == ops[i]
           layout == fsReadFile(localFs, op.project, LayoutHtml)
       IN  ops' = [ops EXCEPT ![i] =
               [op EXCEPT !.pc = "done", !.status = 200,
                          !.value = IF layout.kind = "ok"
                                    THEN render(layout.value, op.value, op.project)
                                    ELSE op.value]]
    /\ UNCHANGED <<backend, registry, localFs, bucket, last, reqs, twin, db>>

\* the folder of foo with some of: a page, a stylesheet, a layout, and a
\* directory named like the page
RaceFs ==
    LET file(fs, filePath) == fsWriteFile(fs, ProjectFoo, filePath, <<"a">>).store
        dir(fs, dirPath) == fsEnsureDirectory(fs, ProjectFoo, dirPath).store
    IN  {file(file(InitFs, IndexHtml), XCss),
         file(file(file(InitFs, IndexHtml), XCss), LayoutHtml),
         file(InitFs, XCss),
         dir(InitFs, IndexHtml)}

RaceCalls ==
    {NewCall(kind, filePath) :
        kind \in {"readFile", "deleteFile", "createReadStream", "fileLoader"},
        filePath \in RacePaths}

InitRace ==
    /\ backend = "local"
    /\ registry = {ProjectFoo}
    /\ localFs \in RaceFs
    /\ bucket = InitBucket
    /\ last = NoCall
    /\ reqs = <<>>
    /\ twin = NoCall
    /\ db = NoTables
    /\ ops \in [1..MaxOps -> RaceCalls]

NextRace ==
    \/ \E i \in DOMAIN ops : StatStep(i)
    \/ \E i \in DOMAIN ops : ReadStep(i)
    \/ \E i \in DOMAIN ops : UnlinkStep(i)
    \/ \E i \in DOMAIN ops : OpenStep(i)
    \/ \E i \in DOMAIN ops : LayoutStep(i)

SpecRace == InitRace /\ [][NextRace]_vars

\* C30: on the local backend, whatever other requests do between the
\* pre-check and the read, unlink or open, a finished readFile,
\* createReadStream or deleteFile has succeeded or failed with AccessDenied,
\* FileNotFound or PathNotFile, and the stream it returned has not failed;
\* of two finished deleteFile calls of the same file, if one succeeded the
\* other ended with FileNotFound; and fileLoader never answers 500.
C30_RacesEndTyped ==
    /\ \A i \in DOMAIN ops :
           ops[i].pc = "done" =>
               /\ ops[i].result \in {"ok", "AccessDenied", "FileNotFound", "PathNotFile"}
               /\ ops[i].stream # "error"
               /\ ops[i].status # 500
    /\ \A i, j \in DOMAIN ops :
           (/\ i # j
            /\ ops[i].kind = "deleteFile" /\ ops[j].kind = "deleteFile"
            /\ ops[i].filePath = ops[j].filePath
            /\ ops[i].pc = "done" /\ ops[j].pc = "done"
            /\ ops[i].result = "ok")
               => ops[j].result = "FileNotFound"

====
